---- MODULE Spec2Model ----
(***************************************************************************)
(* Model of the TripAdvisor scraper: the page fetcher with its retry       *)
(* decorator, the field extractor, the paginator and the hotel scrape      *)
(* (src/scraper/tripadvisor.py).                                           *)
(*                                                                         *)
(* Strings are modelled as sequences of atomic tokens.  A token is a pair  *)
(* <<"w", s>> (a chunk of text s; <<"w", " ">> is white space) or          *)
(* <<"n", k>> (the decimal numeral of the integer k).  Every string        *)
(* operation of the source (in, split, strip, replace, slicing, int) is    *)
(* computed token by token.                                                *)
(***************************************************************************)
EXTENDS Integers, Sequences, FiniteSets, TLC

(***************************************************************************)
(* Bounds of the model.                                                    *)
(***************************************************************************)
\* longest base URL, in tokens
MaxUrlLen == 3
\* largest total review count given to the paginator on its own
MaxTotalReviews == 1000
\* largest caller page limit (0 stands for None: no limit supplied)
MaxPageLimit == 3
\* largest review count a served hotel page announces in a scrape
MaxPageReviews == 25
\* largest max_hotels given to the region walker
MaxHotelLimit == 2
\* most elements a locator of the region walker matches
MaxListing == 3
\* most rows of a raw DataFrame given to clean_data on its own
MaxRecords == 3
\* most rows of a DataFrame given to analyze_sentiment and generate_summary
MaxRatings == 4
\* most rows of a table of the database
MaxRows == 2
\* most reviews of a batch given to save_reviews on its own
MaxBatch == 2
\* threads that call save_hotel at the same time
MaxThreads == 2
\* the scrape tasks started in a session
MaxTasks == 2

(***************************************************************************)
(* Program constants.                                                      *)
(***************************************************************************)
\* a slip: one attempt more than the stop condition allows
stop_after_attempt_plus_one == 5 + 1

\* stop_after_attempt(5)
stop_after_attempt == 5
\* wait_exponential(multiplier=1, min=4, max=60)
wait_multiplier == 1
wait_min == 4
wait_max == 60
\* default reviews_per_page of _generate_pagination_urls
reviews_per_page == 10
\* num_pages = min(num_pages, 50)
max_num_pages == 50

(***************************************************************************)
(* Strings as token sequences.                                             *)
(***************************************************************************)
W(s) == <<"w", s>>
N(k) == <<"n", k>>
IsNum(tok) == tok[1] = "n"
Space == W(" ")
\* the Python value None / a locator that found no element
None == <<W("<None>")>>

Min(a, b) == IF a < b THEN a ELSE b
Max(a, b) == IF a > b THEN a ELSE b

RECURSIVE IndexOf(_, _, _)
\* position of the first token of s equal to tok at or after i, 0 when none
IndexOf(s, tok, i) ==
    IF i > Len(s) THEN 0
    ELSE IF s[i] = tok THEN i
    ELSE IndexOf(s, tok, i + 1)

\* Python: marker in s
Contains(s, tok) == IndexOf(s, tok, 1) # 0

RECURSIVE Split(_, _)
\* Python: s.split(marker), every occurrence of the marker is a cut
Split(s, tok) ==
    LET k == IndexOf(s, tok, 1)
    IN  IF k = 0 THEN <<s>>
        ELSE <<SubSeq(s, 1, k - 1)>> \o Split(SubSeq(s, k + 1, Len(s)), tok)

RECURSIVE LStrip(_)
LStrip(s) == IF s # <<>> /\ Head(s) = Space THEN LStrip(Tail(s)) ELSE s

RECURSIVE RStrip(_)
RStrip(s) ==
    IF s # <<>> /\ s[Len(s)] = Space THEN RStrip(SubSeq(s, 1, Len(s) - 1)) ELSE s

\* Python: s.strip()
Strip(s) == RStrip(LStrip(s))

\* Python: s.replace(tok, '')
Remove(s, tok) == SelectSeq(s, LAMBDA t : t # tok)

\* Python: s[:n]
Prefix(s, n) == SubSeq(s, 1, Min(n, Len(s)))

(***************************************************************************)
(* The paginator: _generate_pagination_urls.                               *)
(***************************************************************************)
ReviewsMarker == W("Reviews-")

\* a slip: the page count rounded down
NumPagesUncapped_floor(total_reviews) == total_reviews \div reviews_per_page

\* num_pages = (total_reviews + reviews_per_page - 1) // reviews_per_page,
\* then min(num_pages, 50)
NumPagesUncapped(total_reviews) ==
    (total_reviews + reviews_per_page - 1) \div reviews_per_page

NumPages(total_reviews) == Min(NumPagesUncapped(total_reviews), max_num_pages)

\* range(reviews_per_page, num_pages * reviews_per_page, reviews_per_page)
OffsetRange(num_pages) ==
    [j \in 1 .. Max(num_pages - 1, 0) |-> j * reviews_per_page]

\* f"{first_part}{i}{second_part}" with first_part = split_url[0] + "Reviews-or"
\* and second_part = "-" + split_url[1]
PageUrl(base_url, i) ==
    LET split_url == Split(base_url, ReviewsMarker)
    IN  split_url[1] \o <<ReviewsMarker, W("or")>> \o <<N(i)>> \o <<W("-")>>
            \o split_url[2]

\* a slip: nothing returned for a URL without the marker
generate_pagination_urls_empty(base_url, total_reviews) ==
    IF Contains(base_url, ReviewsMarker)
    THEN <<base_url>> \o
         [j \in 1 .. Len(OffsetRange(NumPages(total_reviews))) |->
              PageUrl(base_url, OffsetRange(NumPages(total_reviews))[j])]
    ELSE <<>>

generate_pagination_urls(base_url, total_reviews) ==
    IF Contains(base_url, ReviewsMarker)
    THEN <<base_url>> \o
         [j \in 1 .. Len(OffsetRange(NumPages(total_reviews))) |->
              PageUrl(base_url, OffsetRange(NumPages(total_reviews))[j])]
    ELSE <<base_url>>

(***************************************************************************)
(* The field extractor: _extract_hotel_info and _extract_reviews.          *)
(*                                                                         *)
(* A parsed document (soup) is the record of what each locator of the      *)
(* source finds in it: the text of the element, or None when no element    *)
(* matches; for find_all the sequence of the matching elements in document *)
(* order.  A review container is the same for the locators applied to it.  *)
(***************************************************************************)
NA == <<W("N/A")>>
Zero == <<N(0)>>
\* numeral written with thousands separators, "1,234"
NC(k) == <<"n,", k>>
\* str(k / 10): the decimal text of a float, "4.5"
D(k) == <<"d", k>>

\* Python: s.lower(), on the words the model uses
Lower(tok) == IF tok = W("Reviews") THEN W("reviews") ELSE tok

\* Python: "reviews" in reviews_text.lower()
HasReviewsWord(text) == \E i \in 1 .. Len(text) : Lower(text[i]) = W("reviews")

\* Python: reviews_text.split()[0]
FirstWord(text) == Head(SelectSeq(text, LAMBDA t : t # Space))

\* Python: word.replace(',', '')
StripCommas(tok) == IF tok[1] = "n," THEN N(tok[2]) ELSE tok

\* hotel_info['name'] (lines 184-198)
extract_name(soup) ==
    IF soup.h1_HEADING # None /\ Strip(soup.h1_HEADING) # <<>>
    THEN Strip(soup.h1_HEADING)
    ELSE IF soup.h1_QdLfr # None THEN Strip(soup.h1_QdLfr)
    ELSE NA

\* hotel_info['location'] (lines 201-215)
extract_location(soup) ==
    IF Len(soup.span_biGQs) > 1 THEN Strip(soup.span_biGQs[2])
    ELSE IF soup.div_AYHFM # None THEN Strip(soup.div_AYHFM)
    ELSE NA

\* hotel_info['total_reviews'] (lines 218-231)
extract_total_reviews(soup) ==
    IF soup.span_biGQs # <<>>
    THEN IF HasReviewsWord(soup.span_biGQs[1])
         THEN <<StripCommas(FirstWord(soup.span_biGQs[1]))>>
         ELSE Zero
    ELSE Zero

\* hotel_info['rating'] (lines 234-248)
extract_hotel_rating(soup) ==
    IF soup.div_grdwI # None THEN Strip(soup.div_grdwI)
    ELSE IF soup.span_uwJeR # None THEN Strip(soup.span_uwJeR)
    ELSE NA

extract_hotel_info(soup) ==
    [name |-> extract_name(soup),
     location |-> extract_location(soup),
     total_reviews |-> extract_total_reviews(soup),
     rating |-> extract_hotel_rating(soup)]

\* a slip: no default when the fallback locator finds nothing
extract_title_no_default(c) ==
    IF c.span_JbGkU # None THEN Strip(c.span_JbGkU)
    ELSE IF c.span_noQuotes # None THEN Strip(c.span_noQuotes)
    ELSE None

\* review['title'] (lines 280-293)
extract_title(c) ==
    IF c.span_JbGkU # None THEN Strip(c.span_JbGkU)
    ELSE IF c.span_noQuotes # None THEN Strip(c.span_noQuotes)
    ELSE NA

\* review['content'] (lines 296-309)
extract_content(c) ==
    IF c.span_orRIx # None THEN Strip(c.span_orRIx)
    ELSE IF c.p_partial_entry # None THEN Strip(c.p_partial_entry)
    ELSE NA

WroteAReview == W("wrote a review")

\* review['reviewer'] and review['date'] (lines 312-335)
extract_reviewer_date(c) ==
    IF c.div_tVWyV # None /\ Contains(c.div_tVWyV, WroteAReview)
    THEN LET parts == Split(c.div_tVWyV, WroteAReview)
         IN  [reviewer |-> Strip(parts[1]), date |-> Strip(parts[2])]
    ELSE [reviewer |-> IF c.div_info_text # None THEN Strip(c.div_info_text) ELSE NA,
          date |-> IF c.span_ratingDate # None
                   THEN Strip(Remove(c.span_ratingDate, W("Reviewed")))
                   ELSE NA]

\* cls.startswith('bubble_'); a class name is the sequence of its parts
\* between underscores
StartsWithBubble(cls) == Len(cls) >= 2 /\ cls[1] = W("bubble")

RECURSIVE bubble_loop(_, _, _)
\* for cls in bubble_class: ... (lines 351-358); review is the dict so far
bubble_loop(bubble_class, i, review) ==
    IF i > Len(bubble_class) THEN review
    ELSE IF StartsWithBubble(bubble_class[i])
         THEN IF IsNum(bubble_class[i][2])
              THEN [rating |-> <<D(bubble_class[i][2][2])>>] @@ review
              ELSE bubble_loop(bubble_class, i + 1, [rating |-> NA] @@ review)
         ELSE bubble_loop(bubble_class, i + 1, review)

\* review['rating'] (lines 338-363): the dict review with the key set, or
\* left as it is when the loop over the classes sets nothing
extract_rating(c, review) ==
    IF c.div_kmMXA
    THEN IF c.kmMXA_title # None
         THEN [rating |-> Strip(Prefix(c.kmMXA_title, 3))] @@ review
         ELSE [rating |-> NA] @@ review
    ELSE IF c.span_ui_bubble_rating # None
         THEN bubble_loop(c.span_ui_bubble_rating, 1, review)
         ELSE [rating |-> NA] @@ review

\* one pass of the loop over the containers (lines 276-366)
extract_review(c) ==
    extract_rating(c,
        [title |-> extract_title(c), content |-> extract_content(c)]
            @@ extract_reviewer_date(c))

\* review_containers (lines 266-274)
review_containers(soup) ==
    IF soup.div_YibKl # <<>> THEN soup.div_YibKl ELSE soup.div_review_container

extract_reviews(soup) ==
    [j \in 1 .. Len(review_containers(soup)) |->
        extract_review(review_containers(soup)[j])]

(***************************************************************************)
(* Documents the site serves in a scrape.                                  *)
(***************************************************************************)
EmptyContainer ==
    [span_JbGkU |-> None, span_noQuotes |-> None, span_orRIx |-> None,
     p_partial_entry |-> None, div_tVWyV |-> None, div_info_text |-> None,
     span_ratingDate |-> None, div_kmMXA |-> FALSE, kmMXA_title |-> None,
     span_ui_bubble_rating |-> None]

EmptySoup ==
    [h1_HEADING |-> None, h1_QdLfr |-> None, span_biGQs |-> <<>>,
     div_AYHFM |-> None, div_grdwI |-> None, span_uwJeR |-> None,
     div_YibKl |-> <<>>, div_review_container |-> <<>>]

\* a review container in the current markup, with the given content text
ReviewOf(text) ==
    [EmptyContainer EXCEPT !.span_orRIx = <<W(text)>>,
                           !.div_tVWyV = <<W("Ann"), Space, WroteAReview, Space, W("May")>>,
                           !.div_kmMXA = TRUE,
                           !.kmMXA_title = <<W("5"), W("."), W("0"), Space, W("of")>>]

\* a hotel page announcing t reviews and showing the given containers
HotelPage(t, containers) ==
    [EmptySoup EXCEPT !.h1_HEADING = <<W("Inn")>>,
                      !.span_biGQs = << <<N(t), Space, W("reviews")>>, <<W("Rome")>> >>,
                      !.div_YibKl = containers]

ServedTotals == {0, 5, 15, MaxPageReviews}

ServedDocs ==
    {HotelPage(t, <<ReviewOf("a")>>) : t \in ServedTotals}
        \cup {HotelPage(MaxPageReviews, <<ReviewOf("b"), ReviewOf("a")>>)}
        \cup {EmptySoup,
              [EmptySoup EXCEPT !.span_biGQs = << <<W("Reviews"), Space, N(5)>> >>]}

(***************************************************************************)
(* The region walker: the extraction of scrape_hotels_by_region.           *)
(*                                                                         *)
(* A region page is the record of what each of the three locators finds:   *)
(* a sequence of anchors, or of divs for the last locator.  An anchor is   *)
(* the dict of its attributes; a div is the sequence of the anchors in it. *)
(***************************************************************************)
Origin == W("https://www.tripadvisor.com")

\* a slip: the slice [:max_hotels] left out
Limit_none(elements, n) == elements

\* hotel_elements[:max_hotels] (line 521)
Limit(elements, n) == Prefix(elements, n)

\* the elements of the first locator that matches anything (lines 510-519)
hotel_elements(soup) ==
    IF soup.a_property_title # <<>> THEN soup.a_property_title
    ELSE IF soup.a_review_count # <<>> THEN soup.a_review_count
    ELSE LET divs == SelectSeq(soup.div_listing_title, LAMBDA d : d # <<>>)
         IN  [k \in 1 .. Len(divs) |-> divs[k][1]]

\* the loop over the elements (lines 521-526)
region_hotel_urls(soup, n) ==
    LET kept == SelectSeq(Limit(hotel_elements(soup), n),
                          LAMBDA a : /\ "href" \in DOMAIN a
                                     /\ a.href # <<>>
                                     /\ a.href[1] = W("/"))
    IN  [k \in 1 .. Len(kept) |-> <<Origin>> \o kept[k].href]

\* anchors: a relative href, an absolute one, no href attribute
RelativeLink(k) == [href |-> <<W("/"), W("Hotel_Review-g1-d"), N(k)>>]
AbsoluteLink == [href |-> <<W("https://other.example"), W("/"), W("x")>>]
NoHref == [class |-> <<W("property_title")>>]

NoListing == [a_property_title |-> <<>>, a_review_count |-> <<>>,
              div_listing_title |-> <<>>]

\* region pages the site serves in a scrape
RegionDocs ==
    {NoListing,
     [NoListing EXCEPT !.a_property_title =
          <<RelativeLink(1), RelativeLink(2), RelativeLink(3)>>],
     [NoListing EXCEPT !.a_property_title = <<NoHref, AbsoluteLink>>,
                       !.a_review_count = <<RelativeLink(1)>>],
     [NoListing EXCEPT !.a_review_count = <<RelativeLink(2), NoHref, RelativeLink(1)>>],
     [NoListing EXCEPT !.div_listing_title =
          << <<>>, <<RelativeLink(1), RelativeLink(2)>>, <<AbsoluteLink>> >>]}

(***************************************************************************)
(* State.                                                                  *)
(***************************************************************************)
VARIABLES
    use_selenium,    \* self.use_selenium, the fetch strategy of the scraper
    url,             \* scrape_hotel: the url argument
    max_pages,       \* scrape_hotel: the max_pages argument, 0 for None
    pc,              \* scrape_hotel: where the call stands
    hotel_info,      \* scrape_hotel: hotel_info
    reviews,         \* scrape_hotel: reviews
    pagination_urls, \* scrape_hotel: the page URLs still to scrape
    result,          \* scrape_hotel: the returned (reviews, hotel_info)
    fetched,         \* history: the URLs given to _fetch_page_content, in order
    page_log,        \* history: per page fetched, its reviews or the failure
    fetch_state,     \* _fetch_page_content: idle, running, returned, raised
    fetch_url,       \* _fetch_page_content: the url argument
    attempt_number,  \* tenacity: retry_state.attempt_number
    waits,           \* history: the backoff delays slept in this fetch
    sleeps,          \* history: the pacing sleeps of this fetch
    attempt_log,     \* history: the outcome of each attempt of this fetch
    fetch_value,     \* _fetch_page_content: the payload returned or the exception raised
    arg,             \* a function applied on its own: its arguments
    out,             \* a function applied on its own: its value
    applied,         \* a function applied on its own: whether out is set
    max_hotels,      \* scrape_hotels_by_region / scrape_region: the max_hotels argument
    hotels,          \* database: the committed rows of the table hotels
    stored_reviews,  \* database: the committed rows of the table reviews
    search_history,  \* database: the rows of the table search_history, the deleted kept
    last_call,       \* history: the last call of the database, its arguments and value
    task_pc,         \* scrape_region: where the task stands
    hotel_urls,      \* scrape_region: hotel_urls
    combined_df,     \* scrape_region: combined_df
    task_log,        \* history: per hotel of the loop, its URL and what became of it
    threads,         \* save_hotel on a thread: where each call stands, its locals
    writer,          \* database: the connection holding the write lock, 0 for none
    tasks,           \* app.py: the scrape tasks started, where each stands, its locals
    session_state    \* app.py: st.session_state

scrapeVars == <<url, max_pages, pc, hotel_info, reviews, pagination_urls, result,
                fetched, page_log>>
fetchVars == <<fetch_state, fetch_url, attempt_number, waits, sleeps, attempt_log,
               fetch_value>>
pureVars == <<arg, out, applied>>
storeVars == <<hotels, stored_reviews, search_history, last_call>>
taskVars == <<task_pc, hotel_urls, combined_df, task_log>>
threadVars == <<threads, writer>>
sessionVars == <<tasks, session_state>>
appVars == <<max_hotels, storeVars, taskVars, threadVars, sessionVars>>
vars == <<use_selenium, scrapeVars, fetchVars, pureVars, appVars>>

(***************************************************************************)
(* The fetcher: _fetch_page_content under the tenacity retry decorator.    *)
(***************************************************************************)
\* what session.get / raise_for_status raise (requests.exceptions)
RequestExceptions == {"ConnectionError", "Timeout", "HTTPError"}
\* what driver.get and WebDriverWait.until raise (selenium.common.exceptions)
SeleniumExceptions == {"WebDriverException", "TimeoutException"}

Raises(selenium) == IF selenium THEN SeleniumExceptions ELSE RequestExceptions

\* retry_if_exception_type((requests.exceptions.RequestException, ConnectionError))
retry_if_exception_type(e) == e \in RequestExceptions

RECURSIVE Pow2(_)
Pow2(n) == IF n <= 0 THEN 1 ELSE 2 * Pow2(n - 1)

\* a slip: the floor min=4 left out
wait_exponential_no_floor(attempt) ==
    Min(wait_multiplier * Pow2(attempt - 1), wait_max)

\* wait_exponential(multiplier=1, min=4, max=60) after the given attempt
wait_exponential(attempt) ==
    Max(Max(0, wait_min), Min(wait_multiplier * Pow2(attempt - 1), wait_max))

\* the call self._fetch_page_content(u)
CallFetch(u) ==
    /\ fetch_state' = "running"
    /\ fetch_url' = u
    /\ attempt_number' = 1
    /\ waits' = <<>>
    /\ sleeps' = 0
    /\ attempt_log' = <<>>
    /\ fetch_value' = None
    /\ fetched' = Append(fetched, u)

\* what the site serves: a region page to the region walker, a hotel page to
\* the hotel scrape
Served == IF pc = "region_page" THEN RegionDocs ELSE ServedDocs

\* an attempt returns the page: driver.page_source or response.text
AttemptSucceeds ==
    /\ fetch_state = "running"
    /\ \E doc \in Served :
        /\ sleeps' = sleeps + 1
        /\ attempt_log' = Append(attempt_log, [ok |-> TRUE, value |-> doc])
        /\ fetch_state' = "returned"
        /\ fetch_value' = doc
    /\ UNCHANGED <<use_selenium, scrapeVars, pureVars, fetch_url, attempt_number, waits>>
    /\ UNCHANGED appVars

\* a variant: the decorator built with reraise=True, the last exception
\* itself raised on exhaustion
AfterFailure_reraise(e) ==
    IF ~retry_if_exception_type(e) \/ attempt_number >= stop_after_attempt
    THEN /\ fetch_state' = "raised"
         /\ fetch_value' = [exc |-> e, last |-> e]
         /\ UNCHANGED <<attempt_number, waits>>
    ELSE /\ waits' = Append(waits, wait_exponential(attempt_number))
         /\ attempt_number' = attempt_number + 1
         /\ UNCHANGED <<fetch_state, fetch_value>>

\* a slip: stop=stop_after_attempt(5) left out, a retryable failure retried
\* without end
AfterFailure_no_stop(e) ==
    IF ~retry_if_exception_type(e)
    THEN /\ fetch_state' = "raised"
         /\ fetch_value' = [exc |-> e, last |-> e]
         /\ UNCHANGED <<attempt_number, waits>>
    ELSE /\ waits' = Append(waits, wait_exponential(attempt_number))
         /\ attempt_number' = attempt_number + 1
         /\ UNCHANGED <<fetch_state, fetch_value>>

\* what the decorator does with an attempt that raised e
AfterFailure(e) ==
    IF ~retry_if_exception_type(e)
    THEN /\ fetch_state' = "raised"
         /\ fetch_value' = [exc |-> e, last |-> e]
         /\ UNCHANGED <<attempt_number, waits>>
    ELSE IF attempt_number >= stop_after_attempt
    THEN /\ fetch_state' = "raised"
         /\ fetch_value' = [exc |-> "RetryError", last |-> e]
         /\ UNCHANGED <<attempt_number, waits>>
    ELSE /\ waits' = Append(waits, wait_exponential(attempt_number))
         /\ attempt_number' = attempt_number + 1
         /\ UNCHANGED <<fetch_state, fetch_value>>

\* an attempt raises: the except clause logs and re-raises into the decorator
AttemptFails ==
    /\ fetch_state = "running"
    /\ \E e \in Raises(use_selenium) :
        /\ sleeps' = sleeps + 1
        /\ attempt_log' = Append(attempt_log, [ok |-> FALSE, value |-> e])
        /\ AfterFailure(e)
    /\ UNCHANGED <<use_selenium, scrapeVars, pureVars, fetch_url>>
    /\ UNCHANGED appVars

(***************************************************************************)
(* The hotel scrape: scrape_hotel.                                         *)
(***************************************************************************)
\* int(text) succeeds: one numeral, white space around it allowed
IntParses(text) == Len(Strip(text)) = 1 /\ IsNum(Strip(text)[1])
IntOf(text) == Strip(text)[1][2]

\* a missing cell of a DataFrame
NaN == <<W("<NaN>")>>
\* the empty dict {}
EmptyDict == [k \in {} |-> None]

\* a slip: the first URL not skipped
Rest_keep_first(s) == s

\* Python: s[1:]
Rest(s) == IF s = <<>> THEN <<>> ELSE Tail(s)

\* pagination_urls[:max_pages] when max_pages is truthy (lines 440-441)
LimitPages(urls, limit) == IF limit # 0 THEN Prefix(urls, limit) ELSE urls

\* pd.DataFrame(reviews) with the hotel columns added (lines 463-479): one row
\* per review, a column for every key some review has, NaN where a review
\* has no such key
DataFrame(revs, info) ==
    LET columns == UNION {DOMAIN revs[j] : j \in 1 .. Len(revs)}
    IN  [j \in 1 .. Len(revs) |->
            [hotel_name |-> info.name, hotel_location |-> info.location,
             hotel_rating |-> info.rating]
            @@ [c \in columns |-> IF c \in DOMAIN revs[j] THEN revs[j][c] ELSE NaN]]

\* the degraded result of the outer except clause (lines 484-486)
Degraded == [df |-> <<>>, hotel_info |-> EmptyDict]

\* the call of _fetch_page_content is over and its outcome consumed
FetchIdle ==
    /\ fetch_state' = "idle"
    /\ fetch_url' = None
    /\ attempt_number' = 0
    /\ waits' = <<>>
    /\ sleeps' = 0
    /\ attempt_log' = <<>>
    /\ fetch_value' = None

\* scrape_hotel is called and fetches the first page (line 424)
ScrapeHotel ==
    /\ pc = "call"
    /\ pc' = "first_page"
    /\ CallFetch(url)
    /\ UNCHANGED <<use_selenium, url, max_pages, hotel_info, reviews, pagination_urls,
                   result, page_log, pureVars>>
    /\ UNCHANGED appVars

\* the first page is fetched: lines 425-444
FirstPage ==
    /\ pc = "first_page"
    /\ fetch_state = "returned"
    /\ LET info == extract_hotel_info(fetch_value)
           revs == extract_reviews(fetch_value)
       IN  IF IntParses(info.total_reviews)
           THEN /\ hotel_info' = info
                /\ reviews' = revs
                /\ pagination_urls' =
                       Rest(LimitPages(
                           generate_pagination_urls(url, IntOf(info.total_reviews)),
                           max_pages))
                /\ pc' = "pages"
                /\ UNCHANGED result
           ELSE /\ result' = Degraded
                /\ pc' = "done"
                /\ UNCHANGED <<hotel_info, reviews, pagination_urls>>
    /\ page_log' = Append(page_log,
                          [ok |-> TRUE, reviews |-> extract_reviews(fetch_value)])
    /\ FetchIdle
    /\ UNCHANGED <<use_selenium, url, max_pages, fetched, pureVars>>
    /\ UNCHANGED appVars

\* the fetch of the first page raises: the outer except clause (lines 484-486)
FirstPageFails ==
    /\ pc = "first_page"
    /\ fetch_state = "raised"
    /\ result' = Degraded
    /\ pc' = "done"
    /\ page_log' = Append(page_log, [ok |-> FALSE, reviews |-> <<>>])
    /\ FetchIdle
    /\ UNCHANGED <<use_selenium, url, max_pages, hotel_info, reviews, pagination_urls,
                   fetched, pureVars>>
    /\ UNCHANGED appVars

\* the loop takes the next page URL and fetches it (lines 447-450)
NextPage ==
    /\ pc = "pages"
    /\ fetch_state = "idle"
    /\ pagination_urls # <<>>
    /\ CallFetch(Head(pagination_urls))
    /\ UNCHANGED <<use_selenium, url, max_pages, pc, hotel_info, reviews,
                   pagination_urls, result, page_log, pureVars>>
    /\ UNCHANGED appVars

\* a slip: the reviews of the page put before those of the earlier pages
PageScraped_prepend ==
    /\ pc = "pages"
    /\ fetch_state = "returned"
    /\ reviews' = extract_reviews(fetch_value) \o reviews
    /\ page_log' = Append(page_log,
                          [ok |-> TRUE, reviews |-> extract_reviews(fetch_value)])
    /\ pagination_urls' = Tail(pagination_urls)
    /\ FetchIdle
    /\ UNCHANGED <<use_selenium, url, max_pages, pc, hotel_info, result, fetched,
                   pureVars>>
    /\ UNCHANGED appVars

\* the page is fetched: its reviews are added (lines 451-458)
PageScraped ==
    /\ pc = "pages"
    /\ fetch_state = "returned"
    /\ reviews' = reviews \o extract_reviews(fetch_value)
    /\ page_log' = Append(page_log,
                          [ok |-> TRUE, reviews |-> extract_reviews(fetch_value)])
    /\ pagination_urls' = Tail(pagination_urls)
    /\ FetchIdle
    /\ UNCHANGED <<use_selenium, url, max_pages, pc, hotel_info, result, fetched,
                   pureVars>>
    /\ UNCHANGED appVars

\* a slip: the failure of a page ends the loop
PageFails_abort ==
    /\ pc = "pages"
    /\ fetch_state = "raised"
    /\ page_log' = Append(page_log, [ok |-> FALSE, reviews |-> <<>>])
    /\ pagination_urls' = <<>>
    /\ FetchIdle
    /\ UNCHANGED <<use_selenium, url, max_pages, pc, hotel_info, reviews, result,
                   fetched, pureVars>>
    /\ UNCHANGED appVars

\* the fetch of the page raises: the inner except clause logs it (lines 459-460)
PageFails ==
    /\ pc = "pages"
    /\ fetch_state = "raised"
    /\ page_log' = Append(page_log, [ok |-> FALSE, reviews |-> <<>>])
    /\ pagination_urls' = Tail(pagination_urls)
    /\ FetchIdle
    /\ UNCHANGED <<use_selenium, url, max_pages, pc, hotel_info, reviews, result,
                   fetched, pureVars>>
    /\ UNCHANGED appVars

\* the loop is over: the result is built and returned (lines 462-482)
ReturnResult ==
    /\ pc = "pages"
    /\ fetch_state = "idle"
    /\ pagination_urls = <<>>
    /\ result' = [df |-> DataFrame(reviews, hotel_info), hotel_info |-> hotel_info]
    /\ pc' = "done"
    /\ UNCHANGED <<use_selenium, url, max_pages, hotel_info, reviews, pagination_urls,
                   fetched, page_log, fetchVars, pureVars>>
    /\ UNCHANGED appVars

(***************************************************************************)
(* The data processor: TripAdvisorDataProcessor.                           *)
(*                                                                         *)
(* A DataFrame is the sequence of its rows, each row the record of its     *)
(* cells; every row has the same columns.  A float is kept in tenths, a    *)
(* calendar date by its month.                                             *)
(***************************************************************************)
\* the float k / 10
Float(k) == << <<"f", k>> >>
\* the calendar date pandas reads from a date text, by its month
Timestamp(m) == << <<"ts", m>> >>
\* the null of a datetime column
NaT == <<W("<NaT>")>>

Columns(df) == IF df = <<>> THEN {} ELSE DOMAIN df[1]

\* the date texts the parser of pd.to_datetime reads, with their month
MonthOf == (W("May") :> 5) @@ (W("June") :> 6)

\* pd.to_datetime(text, errors='coerce') on one cell (line 573)
to_datetime(text) ==
    IF Len(text) = 1 /\ text[1] \in DOMAIN MonthOf
    THEN Timestamp(MonthOf[text[1]])
    ELSE NaT

DigitOf == ("0" :> 0) @@ ("1" :> 1) @@ ("2" :> 2) @@ ("3" :> 3) @@ ("4" :> 4)
               @@ ("5" :> 5)
IsDigit(tok) == tok[1] = "w" /\ tok[2] \in DOMAIN DigitOf

\* pd.to_numeric(text, errors='coerce') on one cell (line 579): the text of a
\* float or of an integer is read, anything else becomes NaN
to_numeric(text) ==
    IF Len(text) = 1 /\ text[1][1] = "d" THEN Float(text[1][2])
    ELSE IF Len(text) = 1 /\ IsNum(text[1]) THEN Float(10 * text[1][2])
    ELSE IF Len(text) = 1 /\ IsDigit(text[1]) THEN Float(10 * DigitOf[text[1][2]])
    ELSE IF /\ Len(text) = 3
            /\ IsDigit(text[1]) /\ text[2] = W(".") /\ IsDigit(text[3])
    THEN Float(10 * DigitOf[text[1][2]] + DigitOf[text[3][2]])
    ELSE NaN

\* the rows of df at the indexes in keep, in their order
RECURSIVE Rows(_, _, _)
Rows(df, keep, j) ==
    IF j > Len(df) THEN <<>>
    ELSE (IF j \in keep THEN <<df[j]>> ELSE <<>>) \o Rows(df, keep, j + 1)

DuplicateKey(row) == <<row.reviewer, row.date, row.content>>

\* a slip: keep='last'
drop_duplicates_last(df) ==
    Rows(df, {j \in 1 .. Len(df) :
                 \A i \in j + 1 .. Len(df) : DuplicateKey(df[i]) # DuplicateKey(df[j])}, 1)

\* drop_duplicates(subset=['reviewer', 'date', 'content'], keep='first')
\* (line 584)
drop_duplicates(df) ==
    Rows(df, {j \in 1 .. Len(df) :
                 \A i \in 1 .. j - 1 : DuplicateKey(df[i]) # DuplicateKey(df[j])}, 1)

\* the values of fillna (lines 587-592)
\* a fill that leaves the rating alone
FillValues_no_rating ==
    [title |-> <<W("No Title")>>, content |-> <<W("No Content")>>,
     reviewer |-> <<W("Anonymous")>>]

FillValues ==
    [title |-> <<W("No Title")>>, content |-> <<W("No Content")>>,
     reviewer |-> <<W("Anonymous")>>, rating |-> Float(0)]

fillna(row) ==
    [c \in DOMAIN row |->
        IF c \in DOMAIN FillValues /\ row[c] = NaN THEN FillValues[c] ELSE row[c]]

\* clean_data (lines 554-594); a column that is missing makes the conversion
\* raise KeyError, which is logged
clean_data(df) ==
    IF df = <<>> THEN df
    ELSE LET dated == IF "date" \in Columns(df)
                      THEN [j \in 1 .. Len(df) |->
                               [df[j] EXCEPT !.date = to_datetime(@)]]
                      ELSE df
             numbered == IF "rating" \in Columns(df)
                         THEN [j \in 1 .. Len(df) |->
                                  [dated[j] EXCEPT !.rating = to_numeric(@)]]
                         ELSE dated
             kept == drop_duplicates(numbered)
         IN  [j \in 1 .. Len(kept) |-> fillna(kept[j])]

\* a slip: a rating of exactly 4 not taken as positive
get_sentiment_strict(rating) ==
    IF rating = NaN THEN "Unknown"
    ELSE IF rating[1][2] > 40 THEN "Positive"
    ELSE IF rating[1][2] >= 30 THEN "Neutral"
    ELSE "Negative"

\* get_sentiment (lines 615-624)
get_sentiment(rating) ==
    IF rating = NaN THEN "Unknown"
    ELSE IF rating[1][2] >= 40 THEN "Positive"
    ELSE IF rating[1][2] >= 30 THEN "Neutral"
    ELSE "Negative"

\* analyze_sentiment (lines 596-630)
analyze_sentiment(df) ==
    IF df = <<>> \/ "rating" \notin Columns(df) THEN df
    ELSE [j \in 1 .. Len(df) |->
             [sentiment |-> get_sentiment(df[j].rating)] @@ df[j]]

RECURSIVE SumTenths(_)
SumTenths(cells) ==
    IF cells = <<>> THEN 0 ELSE Head(cells)[1][2] + SumTenths(Tail(cells))

\* Series.mean(): the mean of the cells that are not NaN, as the fraction
\* sum / count in tenths; the count 0 is the NaN pandas returns for no cell
mean(df, column) ==
    LET cells == SelectSeq([j \in 1 .. Len(df) |-> df[j][column]],
                           LAMBDA c : c # NaN)
    IN  [sum |-> SumTenths(cells), count |-> Len(cells)]

\* the integer 0 as an average
ZeroAverage == [sum |-> 0, count |-> 1]

\* value_counts().to_dict() and groupby(...).size().to_dict(): how many
\* rows have each value
value_counts(cells) ==
    [v \in {cells[j] : j \in 1 .. Len(cells)} |->
        Cardinality({j \in 1 .. Len(cells) : cells[j] = v})]

\* generate_summary (lines 632-684)
generate_summary(df) ==
    IF df = <<>>
    THEN [total_reviews |-> 0, average_rating |-> ZeroAverage,
          sentiment_counts |-> EmptyDict, reviews_by_month |-> EmptyDict]
    ELSE [total_reviews |-> Len(df),
          average_rating |->
              IF "rating" \in Columns(df) THEN mean(df, "rating") ELSE ZeroAverage,
          sentiment_counts |->
              IF "sentiment" \in Columns(df)
              THEN value_counts([j \in 1 .. Len(df) |-> df[j].sentiment])
              ELSE EmptyDict,
          reviews_by_month |->
              IF "date" \in Columns(df)
              THEN LET with_date == SelectSeq(df, LAMBDA r : r.date # NaT)
                   IN  value_counts([j \in 1 .. Len(with_date) |->
                                        with_date[j].date[1][2]])
              ELSE EmptyDict]

(***************************************************************************)
(* The database: Database (src/utils/database.py).                         *)
(*                                                                         *)
(* A table is the sequence of its committed rows in rowid order.  Every    *)
(* call opens a connection of its own; the statements of a call work on    *)
(* the rows as the connection sees them, and the rows are committed at the *)
(* end of the call or not at all.                                          *)
(***************************************************************************)
\* dict.get(key, default)
get(d, key, default) == IF key \in DOMAIN d THEN d[key] ELSE default

\* sqlite3 binds None, int, float and str; a pandas Timestamp or NaT, which
\* is what to_dict('records') gives for a datetime column, is none of them
\* and execute raises
Bindable(cell) == cell = <<>> \/ (cell[1][1] # "ts" /\ cell # NaT)

\* None and a float NaN are bound as NULL, and no row has a column = NULL
IsNull(cell) == cell \in {None, NaN}

\* the outcomes of a call as the connection and its statements allow:
\* nothing fails; sqlite3.connect raises; a statement or the commit raises
Faults == {"none", "connect", "execute"}

\* SELECT id FROM hotels WHERE url = ? (lines 103-107): the rows found
select_hotel(rows, hotel_url) ==
    {j \in 1 .. Len(rows) : ~IsNull(hotel_url) /\ rows[j].url = hotel_url}

\* the id an INSERT gives a row: AUTOINCREMENT, above every id given before
lastrowid(rows) == Len(rows) + 1

\* the statements of save_hotel (lines 103-146) when none of them fails:
\* the rows after the commit and the id returned
save_hotel(rows, hotel_data) ==
    LET found == select_hotel(rows, get(hotel_data, "url", <<>>))
    IN  IF found # {}
        THEN LET j == CHOOSE j \in found : \A i \in found : j <= i
             IN  [rows |-> [rows EXCEPT ![j] =
                               [@ EXCEPT !.name = get(hotel_data, "name", <<>>),
                                         !.location = get(hotel_data, "location", <<>>),
                                         !.rating = get(hotel_data, "rating", Zero),
                                         !.total_reviews =
                                             get(hotel_data, "total_reviews", Zero)]],
                  ret |-> rows[j].id]
        ELSE [rows |-> Append(rows,
                           [id |-> lastrowid(rows),
                            name |-> get(hotel_data, "name", <<>>),
                            location |-> get(hotel_data, "location", <<>>),
                            url |-> get(hotel_data, "url", <<>>),
                            rating |-> get(hotel_data, "rating", Zero),
                            total_reviews |-> get(hotel_data, "total_reviews", Zero)]),
              ret |-> lastrowid(rows)]

\* a SELECT that finds no review
select_review_none(rows, hotel_id, review) == {}

\* SELECT id FROM reviews WHERE hotel_id = ? AND reviewer = ? AND date = ?
\* AND content = ? (lines 178-190): the rows found
select_review(rows, hotel_id, review) ==
    LET reviewer == get(review, "reviewer", <<>>)
        date == get(review, "date", <<>>)
        content == get(review, "content", <<>>)
    IN  {j \in 1 .. Len(rows) :
            /\ ~IsNull(reviewer) /\ ~IsNull(date) /\ ~IsNull(content)
            /\ rows[j].hotel_id = hotel_id
            /\ rows[j].reviewer = reviewer
            /\ rows[j].date = date
            /\ rows[j].content = content}

\* the loop of save_reviews (lines 176-208) from review j on, over the rows
\* as the connection sees them: the rows at the end of the loop, or the
\* failure of an execute whose parameters do not bind
RECURSIVE insert_reviews(_, _, _, _)
insert_reviews(rows, hotel_id, batch, j) ==
    IF j > Len(batch) THEN [ok |-> TRUE, rows |-> rows]
    ELSE LET review == batch[j]
             row == [id |-> lastrowid(rows),
                     hotel_id |-> hotel_id,
                     title |-> get(review, "title", <<>>),
                     content |-> get(review, "content", <<>>),
                     reviewer |-> get(review, "reviewer", <<>>),
                     rating |-> get(review, "rating", Zero),
                     date |-> get(review, "date", <<>>),
                     sentiment |-> get(review, "sentiment", <<>>)]
         IN  IF ~(Bindable(row.reviewer) /\ Bindable(row.date) /\ Bindable(row.content))
             THEN [ok |-> FALSE, rows |-> rows]
             ELSE IF select_review(rows, hotel_id, review) # {}
             THEN insert_reviews(rows, hotel_id, batch, j + 1)
             ELSE IF ~(Bindable(row.title) /\ Bindable(row.rating)
                          /\ Bindable(row.sentiment))
             THEN [ok |-> FALSE, rows |-> rows]
             ELSE insert_reviews(Append(rows, row), hotel_id, batch, j + 1)

\* a slip: the rows inserted before the failure committed
save_reviews_partial(rows, hotel_id, batch) ==
    IF batch = <<>> THEN [rows |-> rows, ret |-> FALSE]
    ELSE LET looped == insert_reviews(rows, hotel_id, batch, 1)
         IN  [rows |-> looped.rows, ret |-> looped.ok]

\* save_reviews (lines 167-216) on a connection that opens and commits: the
\* rows after the call and the value returned
save_reviews(rows, hotel_id, batch) ==
    IF batch = <<>> THEN [rows |-> rows, ret |-> FALSE]
    ELSE LET looped == insert_reviews(rows, hotel_id, batch, 1)
         IN  IF looped.ok THEN [rows |-> looped.rows, ret |-> TRUE]
             ELSE [rows |-> rows, ret |-> FALSE]

\* save_search_history (lines 238-245) when nothing fails.  The rows of
\* search_history are kept with those that were deleted, marked: the id is
\* AUTOINCREMENT (line 71), so the id of a deleted row is not given again
save_search_history(rows, searched, search_type) ==
    Append(rows, [id |-> lastrowid(rows), url |-> searched,
                  search_type |-> search_type, deleted |-> FALSE])

\* clear_search_history (lines 443-445) when nothing fails:
\* DELETE FROM search_history
clear_search_history(rows) ==
    [j \in 1 .. Len(rows) |-> [rows[j] EXCEPT !.deleted = TRUE]]

\* SELECT * FROM search_history, by id: the rows that are in the table
history_rows(rows) == SelectSeq(rows, LAMBDA row : ~row.deleted)

\* what a call whose sqlite3.connect raised ends in: the except clause runs,
\* then finally reads conn, which was never bound (lines 152-154, 218-220,
\* 251-253), and the UnboundLocalError leaves the call
ConnectFailed == [outcome |-> "raised", exception |-> "UnboundLocalError"]

\* the URL of a hotel as the region walker returns it
HotelUrl(k) == <<Origin>> \o RelativeLink(k).href

\* the hotel_data of the application (app.py lines 190-196): three names, as
\* many URLs as the table has room for
HotelData ==
    [name : {<<W("Inn")>>, <<W("Hotel")>>, <<>>}, location : {NA},
     url : {HotelUrl(k) : k \in 1 .. MaxRows},
     rating : {NA}, total_reviews : {<<W("0")>>}]

\* a review dict
ReviewDict(reviewer, title, date) ==
    [title |-> title, content |-> <<W("c1")>>, reviewer |-> reviewer,
     rating |-> Float(50), date |-> date, sentiment |-> <<W("Positive")>>]

\* two records that collide, told apart by the title, one that collides with
\* neither, and one with a Timestamp for its date, as clean_data leaves it
ReviewDicts ==
    {ReviewDict(<<W("Ann")>>, <<W("t1")>>, <<W("May")>>),
     ReviewDict(<<W("Ann")>>, <<W("t2")>>, <<W("May")>>),
     ReviewDict(<<W("Bob")>>, <<W("t1")>>, <<W("May")>>),
     ReviewDict(<<W("Ann")>>, <<W("t1")>>, Timestamp(5))}

Batches == UNION {[1 .. n -> ReviewDicts] : n \in 0 .. MaxBatch}

\* a call of save_hotel, whole
SaveHotel ==
    \E hotel_data \in HotelData, fault \in Faults :
        LET saved == save_hotel(hotels, hotel_data)
        IN  /\ Len(saved.rows) <= MaxRows
            /\ hotels' = IF fault = "none" THEN saved.rows ELSE hotels
            /\ last_call' =
                  [op |-> "save_hotel", args |-> hotel_data] @@
                  (IF fault = "connect" THEN ConnectFailed
                   ELSE [outcome |-> "returned",
                         ret |-> IF fault = "none" THEN saved.ret ELSE -1])
            /\ UNCHANGED <<stored_reviews, search_history>>
            /\ UNCHANGED <<use_selenium, scrapeVars, fetchVars, pureVars,
                           max_hotels, taskVars, threadVars, sessionVars>>

\* a call of save_reviews, whole
SaveReviews ==
    \E hotel_id \in 1 .. MaxRows, batch \in Batches, fault \in Faults :
        LET saved == save_reviews(stored_reviews, hotel_id, batch)
        IN  /\ Len(saved.rows) <= MaxRows
            /\ fault # "none" => batch # <<>>
            /\ stored_reviews' = IF fault = "none" THEN saved.rows ELSE stored_reviews
            /\ last_call' =
                  [op |-> "save_reviews",
                   args |-> [hotel_id |-> hotel_id, reviews |-> batch]] @@
                  (IF fault = "connect" THEN ConnectFailed
                   ELSE [outcome |-> "returned",
                         ret |-> IF fault = "none" THEN saved.ret ELSE FALSE])
            /\ UNCHANGED <<hotels, search_history>>
            /\ UNCHANGED <<use_selenium, scrapeVars, fetchVars, pureVars,
                           max_hotels, taskVars, threadVars, sessionVars>>

\* the searches recorded: a URL, and the type of the search, "hotel" or
\* "region" (lines 222-228)
Searches ==
    [url : {HotelUrl(k) : k \in 1 .. MaxRows}, search_type : {"hotel", "region"}]

\* a call of save_search_history, whole
SaveSearchHistory ==
    \E search \in Searches, fault \in Faults :
        /\ Len(search_history) < MaxRows + 1
        /\ search_history' =
              IF fault = "none"
              THEN save_search_history(search_history, search.url, search.search_type)
              ELSE search_history
        /\ last_call' =
              [op |-> "save_search_history", args |-> search] @@
              (IF fault = "connect" THEN ConnectFailed
               ELSE [outcome |-> "returned", ret |-> fault = "none"])
        /\ UNCHANGED <<hotels, stored_reviews>>
        /\ UNCHANGED <<use_selenium, scrapeVars, fetchVars, pureVars,
                       max_hotels, taskVars, threadVars, sessionVars>>

\* a call of clear_search_history, whole
ClearSearchHistory ==
    \E fault \in Faults :
        /\ search_history' =
              IF fault = "none" THEN clear_search_history(search_history)
              ELSE search_history
        /\ last_call' =
              [op |-> "clear_search_history"] @@
              (IF fault = "connect" THEN ConnectFailed
               ELSE [outcome |-> "returned", ret |-> fault = "none"])
        /\ UNCHANGED <<hotels, stored_reviews>>
        /\ UNCHANGED <<use_selenium, scrapeVars, fetchVars, pureVars,
                       max_hotels, taskVars, threadVars, sessionVars>>

(***************************************************************************)
(* save_hotel called on several threads (app.py lines 322-330 start a       *)
(* thread per scrape task; every call opens its own connection).  A        *)
(* connection reads the committed rows.  Its first INSERT or UPDATE begins *)
(* a transaction and takes the write lock of the database file, which one  *)
(* connection holds at a time; a connection that finds the lock held waits *)
(* for it up to the timeout of sqlite3.connect (5 seconds by default).     *)
(***************************************************************************)
\* the SELECT of the call of thread t (lines 103-107)
ThreadSelect ==
    \E t \in DOMAIN threads :
        LET found == select_hotel(hotels, threads[t].hotel_data.url)
        IN  /\ threads[t].pc = "call"
            /\ threads' =
                  [threads EXCEPT ![t].pc = "selected",
                                  ![t].found =
                                      IF found = {} THEN 0
                                      ELSE hotels[CHOOSE j \in found :
                                                     \A i \in found : j <= i].id]
            /\ UNCHANGED <<hotels, writer>>
            /\ UNCHANGED <<stored_reviews, search_history, last_call>>
            /\ UNCHANGED <<use_selenium, scrapeVars, fetchVars, pureVars,
                           max_hotels, taskVars, sessionVars>>

\* INSERT INTO hotels violates the UNIQUE constraint of url
UniqueFails(t) ==
    /\ threads[t].found = 0
    /\ select_hotel(hotels, threads[t].hotel_data.url) # {}

\* the UPDATE or the INSERT of the call of thread t (lines 112-141) is
\* executed in a transaction of its connection
ThreadWrite ==
    \E t \in DOMAIN threads :
        /\ threads[t].pc = "selected"
        /\ writer = 0
        /\ ~UniqueFails(t)
        /\ writer' = t
        /\ threads' = [threads EXCEPT ![t].pc = "written"]
        /\ UNCHANGED hotels
        /\ UNCHANGED <<stored_reviews, search_history, last_call>>
        /\ UNCHANGED <<use_selenium, scrapeVars, fetchVars, pureVars,
                       max_hotels, taskVars, sessionVars>>

\* the INSERT of thread t raises sqlite3.IntegrityError: a row with the url
\* was committed after the SELECT of t; the except clause returns -1
\* (lines 148-150)
ThreadIntegrityError ==
    \E t \in DOMAIN threads :
        /\ threads[t].pc = "selected"
        /\ writer = 0
        /\ UniqueFails(t)
        /\ threads' = [threads EXCEPT ![t].pc = "done", ![t].ret = -1]
        /\ UNCHANGED <<hotels, writer>>
        /\ UNCHANGED <<stored_reviews, search_history, last_call>>
        /\ UNCHANGED <<use_selenium, scrapeVars, fetchVars, pureVars,
                       max_hotels, taskVars, sessionVars>>

\* the write of thread t finds the lock held for the whole timeout and
\* raises sqlite3.OperationalError (database is locked); the except clause
\* returns -1
ThreadLocked ==
    \E t \in DOMAIN threads :
        /\ threads[t].pc = "selected"
        /\ writer \notin {0, t}
        /\ threads' = [threads EXCEPT ![t].pc = "done", ![t].ret = -1]
        /\ UNCHANGED <<hotels, writer>>
        /\ UNCHANGED <<stored_reviews, search_history, last_call>>
        /\ UNCHANGED <<use_selenium, scrapeVars, fetchVars, pureVars,
                       max_hotels, taskVars, sessionVars>>

\* conn.commit() and the return of thread t (lines 145-146); the rows have
\* not changed since the write of t, which holds the lock, so the statement
\* written has the effect save_hotel has on the committed rows
ThreadCommit ==
    \E t \in DOMAIN threads :
        LET saved == save_hotel(hotels, threads[t].hotel_data)
        IN  /\ threads[t].pc = "written"
            /\ writer = t
            /\ hotels' = saved.rows
            /\ writer' = 0
            /\ threads' = [threads EXCEPT ![t].pc = "done", ![t].ret = saved.ret]
            /\ UNCHANGED <<stored_reviews, search_history, last_call>>
            /\ UNCHANGED <<use_selenium, scrapeVars, fetchVars, pureVars,
                           max_hotels, taskVars, sessionVars>>

(***************************************************************************)
(* The region task: scrape_region (src/app.py).  The calls of the scraper   *)
(* are taken by what they return; a pass of the loop is one step.          *)
(***************************************************************************)
\* what scrape_hotel returns for a hotel whose reviews are all on the page
\* served first (lines 425-482)
ScrapeOf(doc) ==
    LET info == extract_hotel_info(doc)
    IN  IF IntParses(info.total_reviews)
        THEN [df |-> DataFrame(extract_reviews(doc), info), hotel_info |-> info]
        ELSE Degraded

\* returns of scrape_hotel: the degraded one, a hotel without reviews, hotels
\* with one and with two reviews
ScrapeResults ==
    {Degraded, ScrapeOf(HotelPage(0, <<>>)), ScrapeOf(HotelPage(1, <<ReviewOf("a")>>)),
     ScrapeOf(HotelPage(2, <<ReviewOf("b"), ReviewOf("a")>>))}

\* pd.concat([a, b], ignore_index=True): the rows of a, then those of b, a
\* column for every column of either
concat(a, b) ==
    LET rows == a \o b
        columns == UNION {DOMAIN rows[j] : j \in 1 .. Len(rows)}
    IN  [j \in 1 .. Len(rows) |->
            [c \in columns |-> IF c \in DOMAIN rows[j] THEN rows[j][c] ELSE NaN]]

\* a slip: the except clause of the loop ends the loop
OnHotelError_break == "done"

\* the except clause of the loop body: log, continue (lines 211-213)
OnHotelError == "loop"

\* scrape_hotels_by_region has returned hotel_urls; with none the task
\* returns (lines 159-165)
TaskWalk ==
    \E found \in {region_hotel_urls(doc, max_hotels) : doc \in RegionDocs} :
        /\ task_pc = "walk"
        /\ hotel_urls' = found
        /\ task_pc' = IF found = <<>> THEN "done" ELSE "loop"
        /\ UNCHANGED <<combined_df, task_log>>
        /\ UNCHANGED <<max_hotels, storeVars, threadVars, sessionVars>>
        /\ UNCHANGED <<use_selenium, scrapeVars, fetchVars, pureVars>>

\* a pass of the loop (lines 175-213) for the next hotel: scrape_hotel
\* returns, the DataFrame is cleaned and labelled, the hotel, its reviews and
\* the search are saved, the DataFrame is added to combined_df; an exception
\* of a call ends the pass where it is raised
TaskHotel ==
    \E scraped \in ScrapeResults, hotel_fault, reviews_fault, history_fault \in Faults :
        LET hotel_url == hotel_urls[Len(task_log) + 1]
            df == analyze_sentiment(clean_data(scraped.df))
            hotel_data == [name |-> get(scraped.hotel_info, "name", <<>>),
                           location |-> get(scraped.hotel_info, "location", <<>>),
                           url |-> hotel_url,
                           rating |-> get(scraped.hotel_info, "rating", Zero),
                           total_reviews |->
                               get(scraped.hotel_info, "total_reviews", Zero)]
            saved == save_hotel(hotels, hotel_data)
            hotel_raised == hotel_fault = "connect"
            hotel_id == IF hotel_fault = "none" THEN saved.ret ELSE -1
            reviews_called == ~hotel_raised /\ hotel_id > 0
            reviews_raised == reviews_called /\ df # <<>> /\ reviews_fault = "connect"
            history_called == ~hotel_raised /\ ~reviews_raised
            history_raised == history_called /\ history_fault = "connect"
            raised == hotel_raised \/ reviews_raised \/ history_raised
        IN  /\ task_pc = "loop"
            /\ Len(task_log) < Len(hotel_urls)
            /\ (~reviews_called \/ df = <<>>) => reviews_fault = "none"
            /\ ~history_called => history_fault = "none"
            /\ hotels' = IF hotel_fault = "none" THEN saved.rows ELSE hotels
            /\ stored_reviews' =
                  IF reviews_called /\ reviews_fault = "none"
                  THEN save_reviews(stored_reviews, hotel_id, df).rows
                  ELSE stored_reviews
            /\ search_history' =
                  IF history_called /\ history_fault = "none"
                  THEN save_search_history(search_history, hotel_url, "hotel")
                  ELSE search_history
            /\ combined_df' = IF ~raised /\ df # <<>> THEN concat(combined_df, df)
                              ELSE combined_df
            /\ task_log' = Append(task_log,
                                  [url |-> hotel_url, raised |-> raised, df |-> df,
                                   hotel_info |-> scraped.hotel_info])
            /\ task_pc' = IF raised THEN OnHotelError ELSE "loop"
            /\ UNCHANGED <<hotel_urls, last_call, max_hotels, threadVars, sessionVars>>
            /\ UNCHANGED <<use_selenium, scrapeVars, fetchVars, pureVars>>

\* the loop is over: the summary is made and the scraper closed
\* (lines 215-231)
TaskEnd ==
    /\ task_pc = "loop"
    /\ Len(task_log) = Len(hotel_urls)
    /\ task_pc' = "done"
    /\ UNCHANGED <<hotel_urls, combined_df, task_log>>
    /\ UNCHANGED <<max_hotels, storeVars, threadVars, sessionVars>>
    /\ UNCHANGED <<use_selenium, scrapeVars, fetchVars, pureVars>>

(***************************************************************************)
(* The region walker: scrape_hotels_by_region.                             *)
(***************************************************************************)
\* scrape_hotels_by_region is called and fetches the region page (line 503)
ScrapeHotelsByRegion ==
    /\ pc = "region_call"
    /\ pc' = "region_page"
    /\ CallFetch(url)
    /\ UNCHANGED <<use_selenium, url, max_pages, hotel_info, reviews, pagination_urls,
                   result, page_log, pureVars>>
    /\ UNCHANGED appVars

\* the region page is fetched: the hotel URLs are returned (lines 504-529)
RegionPage ==
    /\ pc = "region_page"
    /\ fetch_state = "returned"
    /\ result' = [hotel_urls |-> region_hotel_urls(fetch_value, max_hotels)]
    /\ pc' = "region_done"
    /\ page_log' = Append(page_log, [ok |-> TRUE, reviews |-> <<>>])
    /\ FetchIdle
    /\ UNCHANGED <<use_selenium, url, max_pages, hotel_info, reviews, pagination_urls,
                   fetched, pureVars>>
    /\ UNCHANGED appVars

\* a slip: the failure of the fetch passed on to the caller
RegionPageFails_raise ==
    /\ pc = "region_page"
    /\ fetch_state = "raised"
    /\ pc' = "raised"
    /\ page_log' = Append(page_log, [ok |-> FALSE, reviews |-> <<>>])
    /\ FetchIdle
    /\ UNCHANGED <<use_selenium, url, max_pages, hotel_info, reviews, pagination_urls,
                   result, fetched, pureVars>>
    /\ UNCHANGED appVars

\* the fetch of the region page raises: the except clause (lines 531-533)
RegionPageFails ==
    /\ pc = "region_page"
    /\ fetch_state = "raised"
    /\ result' = [hotel_urls |-> <<>>]
    /\ pc' = "region_done"
    /\ page_log' = Append(page_log, [ok |-> FALSE, reviews |-> <<>>])
    /\ FetchIdle
    /\ UNCHANGED <<use_selenium, url, max_pages, hotel_info, reviews, pagination_urls,
                   fetched, pureVars>>
    /\ UNCHANGED appVars

(***************************************************************************)
(* The specification of a hotel scrape and of a walk of a region page.     *)
(***************************************************************************)
H == W("https://www.tripadvisor.com/Hotel_Review-g1-d2-")

RegionUrl == <<W("https://www.tripadvisor.com/Hotels-g1-Rome.html")>>

\* base URLs without the marker, with it, and with it twice
ScrapeUrls ==
    {<<H, W("Inn.html")>>,
     <<H, ReviewsMarker, W("Inn.html")>>,
     <<H, ReviewsMarker, W("Top_"), ReviewsMarker, W("Inn.html")>>}

(***************************************************************************)
(* The session: the buttons of the sidebar and the scrape tasks they start *)
(* (src/app.py, src/ui/components.py).  A task is the record of its thread: *)
(* the target and arguments, where it stands, its scraper (none, open or   *)
(* closed) and its locals.  The calls of the scraper and of the database   *)
(* are taken whole.                                                        *)
(***************************************************************************)
\* threading.Thread(target=..., args=...).start() (app.py lines 322-327)
Thread(target, task_url, selenium) ==
    [target |-> target, url |-> task_url, use_selenium |-> selenium,
     pc |-> "start", scraper |-> "none", hotel_urls |-> <<>>, passes |-> 0,
     df |-> <<>>, hotel_info |-> EmptyDict]

\* what the handlers of the buttons ask of the session before they start a
\* task: nothing (components.py lines 128-130, 155-157, app.py lines 322-327)
Startable == TRUE

\* the button "Scrape Hotel" with a URL the sidebar lets through
\* (components.py lines 128-130): on_scrape_hotel starts a thread
ClickScrapeHotel ==
    \E selenium \in BOOLEAN :
        /\ Len(tasks) < MaxTasks
        /\ Startable
        /\ tasks' = Append(tasks, Thread("scrape_hotel", HotelUrl(1), selenium))
        /\ UNCHANGED <<session_state, max_hotels, storeVars, taskVars, threadVars>>
        /\ UNCHANGED <<use_selenium, scrapeVars, fetchVars, pureVars>>

\* the button "Scrape Region" (components.py lines 155-157): on_scrape_region
\* starts a thread; the scraper of a region task uses Selenium (line 153)
ClickScrapeRegion ==
    /\ Len(tasks) < MaxTasks
    /\ Startable
    /\ tasks' = Append(tasks, Thread("scrape_region", RegionUrl, TRUE))
    /\ UNCHANGED <<session_state, max_hotels, storeVars, taskVars, threadVars>>
    /\ UNCHANGED <<use_selenium, scrapeVars, fetchVars, pureVars>>

\* the writes of scraping_status and progress
Status(status, progress) ==
    [session_state EXCEPT !.scraping_status = status, !.progress = progress]

\* the scraper after the except clause of a task (app.py lines 125-128,
\* 235-238): as it was
OnTaskError(scraper) == scraper

\* the task starts: the first writes of the status and the constructor of
\* the scraper (app.py lines 60-76, 139-157), which raises when the browser
\* does not start (tripadvisor.py lines 83-97)
TaskStart ==
    \E t \in DOMAIN tasks, raised \in BOOLEAN :
        /\ tasks[t].pc = "start"
        /\ raised => tasks[t].use_selenium
        /\ IF raised
           THEN /\ tasks' = [tasks EXCEPT ![t].pc = "ended",
                                          ![t].scraper = OnTaskError("none")]
                /\ session_state' = Status("Error", 0)
           ELSE /\ tasks' = [tasks EXCEPT ![t].pc = "scrape", ![t].scraper = "open"]
                /\ session_state' =
                      IF tasks[t].target = "scrape_hotel"
                      THEN Status("Scraping hotel reviews...", 20)
                      ELSE Status("Finding hotels in the region...", 10)
        /\ UNCHANGED <<max_hotels, storeVars, taskVars, threadVars>>
        /\ UNCHANGED <<use_selenium, scrapeVars, fetchVars, pureVars>>

\* the database calls of a task for one hotel (app.py lines 96-111,
\* 190-205): the tables after them, and whether one of them raised
SaveScrape(hotel_url, info, df, hotel_fault, reviews_fault, history_fault) ==
    LET hotel_data == [name |-> get(info, "name", <<>>),
                       location |-> get(info, "location", <<>>),
                       url |-> hotel_url,
                       rating |-> get(info, "rating", Zero),
                       total_reviews |-> get(info, "total_reviews", Zero)]
        saved == save_hotel(hotels, hotel_data)
        hotel_raised == hotel_fault = "connect"
        hotel_id == IF hotel_fault = "none" THEN saved.ret ELSE -1
        reviews_called == ~hotel_raised /\ hotel_id > 0
        reviews_raised == reviews_called /\ df # <<>> /\ reviews_fault = "connect"
        history_called == ~hotel_raised /\ ~reviews_raised
        history_raised == history_called /\ history_fault = "connect"
    IN  [hotels |-> IF hotel_fault = "none" THEN saved.rows ELSE hotels,
         stored_reviews |->
             IF reviews_called /\ reviews_fault = "none"
             THEN save_reviews(stored_reviews, hotel_id, df).rows
             ELSE stored_reviews,
         search_history |->
             IF history_called /\ history_fault = "none"
             THEN save_search_history(search_history, hotel_url, "hotel")
             ELSE search_history,
         called |-> [reviews |-> reviews_called /\ df # <<>>,
                     history |-> history_called],
         raised |-> hotel_raised \/ reviews_raised \/ history_raised]

\* returns of scrape_hotel in a session: the degraded one and a hotel with
\* a review
TaskScrapes == {Degraded, ScrapeOf(HotelPage(1, <<ReviewOf("a")>>))}

\* scrape_hotel of app.py: the scrape returns and the data is processed
\* (lines 79-93)
HotelTaskScrape ==
    \E t \in DOMAIN tasks, scraped \in TaskScrapes :
        /\ tasks[t].target = "scrape_hotel"
        /\ tasks[t].pc = "scrape"
        /\ tasks' = [tasks EXCEPT ![t].pc = "save",
                                  ![t].df = analyze_sentiment(clean_data(scraped.df)),
                                  ![t].hotel_info = scraped.hotel_info]
        /\ session_state' = Status("Saving to database...", 80)
        /\ UNCHANGED <<max_hotels, storeVars, taskVars, threadVars>>
        /\ UNCHANGED <<use_selenium, scrapeVars, fetchVars, pureVars>>

\* scrape_hotel of app.py: the hotel, its reviews and the search are saved,
\* the results shown and the scraper closed (lines 96-123); an exception of
\* a call ends the task in the except clause (lines 125-128)
HotelTaskSave ==
    \E t \in DOMAIN tasks, hotel_fault, reviews_fault, history_fault \in Faults :
        LET task == tasks[t]
            saved == SaveScrape(task.url, task.hotel_info, task.df,
                                hotel_fault, reviews_fault, history_fault)
        IN  /\ task.target = "scrape_hotel"
            /\ task.pc = "save"
            /\ ~saved.called.reviews => reviews_fault = "none"
            /\ ~saved.called.history => history_fault = "none"
            /\ hotels' = saved.hotels
            /\ stored_reviews' = saved.stored_reviews
            /\ search_history' = saved.search_history
            /\ IF saved.raised
               THEN /\ tasks' = [tasks EXCEPT ![t].pc = "ended",
                                              ![t].scraper = OnTaskError(task.scraper)]
                    /\ session_state' = Status("Error", 0)
               ELSE /\ tasks' = [tasks EXCEPT ![t].pc = "ended",
                                              ![t].scraper = "closed"]
                    /\ session_state' =
                          [df |-> task.df, hotel_info |-> task.hotel_info,
                           summary |-> generate_summary(task.df),
                           scraping_status |-> "Scraping completed successfully!",
                           progress |-> 100]
            /\ UNCHANGED <<last_call, max_hotels, taskVars, threadVars>>
            /\ UNCHANGED <<use_selenium, scrapeVars, fetchVars, pureVars>>

\* scrape_region: scrape_hotels_by_region has returned; with no hotel the
\* task closes the scraper and returns (lines 159-171)
RegionTaskWalk ==
    \E t \in DOMAIN tasks,
       found \in {region_hotel_urls(doc, max_hotels) : doc \in RegionDocs} :
        /\ tasks[t].target = "scrape_region"
        /\ tasks[t].pc = "scrape"
        /\ IF found = <<>>
           THEN /\ tasks' = [tasks EXCEPT ![t].pc = "ended", ![t].scraper = "closed"]
                /\ session_state' = Status("No hotels found in the region.", 0)
           ELSE /\ tasks' = [tasks EXCEPT ![t].pc = "loop", ![t].hotel_urls = found]
                /\ UNCHANGED session_state
        /\ UNCHANGED <<max_hotels, storeVars, taskVars, threadVars>>
        /\ UNCHANGED <<use_selenium, scrapeVars, fetchVars, pureVars>>

\* scrape_region: a pass of the loop (lines 175-213); the progress is
\* 10 + (i / len(hotel_urls)) * 80, kept here rounded down
RegionTaskPass ==
    \E t \in DOMAIN tasks, scraped \in TaskScrapes,
       hotel_fault, reviews_fault, history_fault \in Faults :
        LET task == tasks[t]
            df == analyze_sentiment(clean_data(scraped.df))
            saved == SaveScrape(task.hotel_urls[task.passes + 1], scraped.hotel_info,
                                df, hotel_fault, reviews_fault, history_fault)
        IN  /\ task.target = "scrape_region"
            /\ task.pc = "loop"
            /\ task.passes < Len(task.hotel_urls)
            /\ ~saved.called.reviews => reviews_fault = "none"
            /\ ~saved.called.history => history_fault = "none"
            /\ hotels' = saved.hotels
            /\ stored_reviews' = saved.stored_reviews
            /\ search_history' = saved.search_history
            /\ tasks' = [tasks EXCEPT
                             ![t].passes = task.passes + 1,
                             ![t].df = IF ~saved.raised /\ df # <<>>
                                       THEN concat(task.df, df) ELSE task.df]
            /\ session_state' =
                  Status("Scraping hotel",
                         10 + (task.passes * 80) \div Len(task.hotel_urls))
            /\ UNCHANGED <<last_call, max_hotels, taskVars, threadVars>>
            /\ UNCHANGED <<use_selenium, scrapeVars, fetchVars, pureVars>>

\* scrape_region: the loop is over, the results are shown and the scraper
\* closed (lines 215-233)
RegionTaskEnd ==
    \E t \in DOMAIN tasks :
        LET task == tasks[t]
        IN  /\ task.target = "scrape_region"
            /\ task.pc = "loop"
            /\ task.passes = Len(task.hotel_urls)
            /\ tasks' = [tasks EXCEPT ![t].pc = "ended", ![t].scraper = "closed"]
            /\ session_state' =
                  IF task.df # <<>>
                  THEN [df |-> task.df,
                        hotel_info |-> [name |-> <<W("Multiple Hotels")>>,
                                        location |-> <<W("Various Locations")>>],
                        summary |-> generate_summary(task.df),
                        scraping_status |-> "Scraping completed successfully!",
                        progress |-> 100]
                  ELSE Status("Scraping completed successfully!", 100)
            /\ UNCHANGED <<max_hotels, storeVars, taskVars, threadVars>>
            /\ UNCHANGED <<use_selenium, scrapeVars, fetchVars, pureVars>>

\* nothing is being scraped or fetched
NoScrape ==
    /\ hotel_info = EmptyDict
    /\ reviews = <<>>
    /\ pagination_urls = <<>>
    /\ result = None
    /\ fetched = <<>>
    /\ page_log = <<>>
    /\ fetch_state = "idle"
    /\ fetch_url = None
    /\ attempt_number = 0
    /\ waits = <<>>
    /\ sleeps = 0
    /\ attempt_log = <<>>
    /\ fetch_value = None

\* st.session_state as the script sets it up (app.py lines 33-44); None is
\* written "<None>"
NoSession ==
    [df |-> <<>>, hotel_info |-> EmptyDict, summary |-> EmptyDict,
     scraping_status |-> "<None>", progress |-> 0]

\* no task runs, the database is empty and no thread uses it
NoApp ==
    /\ hotels = <<>>
    /\ stored_reviews = <<>>
    /\ search_history = <<>>
    /\ last_call = [op |-> "none"]
    /\ task_pc = "none"
    /\ hotel_urls = <<>>
    /\ combined_df = <<>>
    /\ task_log = <<>>
    /\ threads = <<>>
    /\ writer = 0
    /\ tasks = <<>>
    /\ session_state = NoSession

Init ==
    /\ use_selenium \in BOOLEAN
    /\ \/ /\ pc = "call"
          /\ url \in ScrapeUrls
          /\ max_pages \in 0 .. MaxPageLimit
          /\ max_hotels = 0
       \/ /\ pc = "region_call"
          /\ url = RegionUrl
          /\ max_pages = 0
          /\ max_hotels \in 1 .. MaxHotelLimit
    /\ NoScrape
    /\ NoApp
    /\ arg = None
    /\ out = None
    /\ applied = FALSE

Next ==
    \/ ScrapeHotel
    \/ AttemptSucceeds
    \/ AttemptFails
    \/ FirstPage
    \/ FirstPageFails
    \/ NextPage
    \/ PageScraped
    \/ PageFails
    \/ ReturnResult
    \/ ScrapeHotelsByRegion
    \/ RegionPage
    \/ RegionPageFails

Spec == Init /\ [][Next]_vars

\* one call of scrape_hotel, run to its end: the call is one sequential
\* thread, so each of its steps is taken in the end, every fetch attempt
\* returning or failing.  The page limit is one the slider of the sidebar
\* gives (at least 1).
InitScrape ==
    /\ Init
    /\ pc = "call"
    /\ url = <<H, ReviewsMarker, W("Inn.html")>>
    /\ max_pages \in 1 .. MaxPageLimit - 1

NextScrape ==
    \/ ScrapeHotel
    \/ AttemptSucceeds
    \/ AttemptFails
    \/ FirstPage
    \/ FirstPageFails
    \/ NextPage
    \/ PageScraped
    \/ PageFails
    \/ ReturnResult

SpecScrape == InitScrape /\ [][NextScrape]_vars /\ WF_vars(NextScrape)

(***************************************************************************)
(* The paginator on its own: _generate_pagination_urls applied to a base   *)
(* URL and a total review count.                                           *)
(***************************************************************************)
RECURSIVE SeqsUpTo(_, _)
\* the sequences over S of length 1 .. n
SeqsUpTo(S, n) ==
    IF n <= 0 THEN {}
    ELSE SeqsUpTo(S, n - 1) \cup [1 .. n -> S]

Urls == SeqsUpTo({ReviewsMarker, W("h")}, MaxUrlLen)

\* no scrape runs while a function is applied on its own
PureRest ==
    /\ use_selenium = FALSE
    /\ url = None
    /\ max_pages = 0
    /\ pc = "none"
    /\ NoScrape
    /\ max_hotels = 0
    /\ NoApp

InitPages ==
    /\ arg \in [base_url : Urls, total_reviews : -1 .. MaxTotalReviews]
    /\ out = None
    /\ applied = FALSE
    /\ PureRest

Paginate ==
    /\ ~applied
    /\ out' = generate_pagination_urls(arg.base_url, arg.total_reviews)
    /\ applied' = TRUE
    /\ UNCHANGED <<arg, use_selenium, scrapeVars, fetchVars>>
    /\ UNCHANGED appVars

NextPages == Paginate

SpecPages == InitPages /\ [][NextPages]_vars

(***************************************************************************)
(* The extractor on its own: _extract_hotel_info and _extract_reviews      *)
(* applied to a document.                                                  *)
(***************************************************************************)
\* element texts: blank, and padded text
ElementTexts == {<<Space>>, <<Space, W("x"), Space>>}
MaybeText == {None} \cup ElementTexts

\* texts of the span the review count and the location are read from
SpanTexts ==
    {<<N(95), Space, W("reviews")>>,
     <<NC(1234), Space, W("Reviews")>>,
     <<W("Reviews"), Space, N(5)>>,
     <<Space, W("Rome")>>}

SpanLists == {<<>>} \cup SeqsUpTo(SpanTexts, 2)

HotelSoups ==
    {[EmptySoup EXCEPT !.h1_HEADING = a, !.h1_QdLfr = b, !.span_biGQs = c,
                       !.div_AYHFM = d, !.div_grdwI = e, !.span_uwJeR = f] :
        a \in MaybeText, b \in MaybeText, c \in SpanLists,
        d \in {None, <<W("Rome"), Space>>},
        e \in {None, <<Space>>, <<W("4.5")>>},
        f \in {None, <<Space, W("4.0")>>}}

ReviewerDateTexts ==
    {None,
     <<W("Ann"), Space, WroteAReview, Space, W("May")>>,
     <<W("Ann"), Space>>,
     <<WroteAReview>>}

\* the div of the rating and the text of the title element in it
RatingElems ==
    {[div |-> FALSE, title |-> None],
     [div |-> TRUE, title |-> None],
     [div |-> TRUE, title |-> <<W("5"), W("."), W("0"), Space, W("of")>>],
     [div |-> TRUE, title |-> <<W("4"), Space>>]}

\* class lists of the bubble-rating span
BubbleClassLists ==
    {None,
     << <<W("ui"), W("bubble"), W("rating")>> >>,
     << <<W("ui"), W("bubble"), W("rating")>>, <<W("bubble"), N(50)>> >>,
     << <<W("ui"), W("bubble"), W("rating")>>, <<W("bubble"), W("")>> >>,
     << <<W("bubble"), W("x")>>, <<W("bubble"), N(45)>> >>,
     << <<W("bubble"), N(45)>>, <<W("bubble"), W("x")>> >>}

\* containers: each field reads its own locators only, so the locators of
\* one field vary at a time
TitleContainers ==
    {[EmptyContainer EXCEPT !.span_JbGkU = a, !.span_noQuotes = b] :
        a \in {None, <<Space>>, <<W("x"), Space>>}, b \in {None, <<W("y")>>}}

ContentContainers ==
    {[EmptyContainer EXCEPT !.span_orRIx = c, !.p_partial_entry = d] :
        c \in {None, <<Space>>, <<Space, W("x")>>}, d \in {None, <<W("y")>>}}

ReviewerDateContainers ==
    {[EmptyContainer EXCEPT !.div_tVWyV = e, !.div_info_text = f,
                            !.span_ratingDate = g] :
        e \in ReviewerDateTexts, f \in {None, <<W("Bob"), Space>>},
        g \in {None, <<W("Reviewed"), Space, W("May")>>}}

RatingContainers ==
    {[EmptyContainer EXCEPT !.div_kmMXA = h.div, !.kmMXA_title = h.title,
                            !.span_ui_bubble_rating = i] :
        h \in RatingElems, i \in BubbleClassLists}

Containers ==
    TitleContainers \cup ContentContainers \cup ReviewerDateContainers
        \cup RatingContainers \cup {ReviewOf("a")}

ReviewSoups ==
    {[EmptySoup EXCEPT !.div_YibKl = <<c>>] : c \in Containers}
        \cup {[EmptySoup EXCEPT !.div_review_container = <<c>>] : c \in Containers}
        \cup {[EmptySoup EXCEPT !.div_YibKl = <<c, EmptyContainer>>,
                                !.div_review_container = <<ReviewOf("z")>>] :
                  c \in {EmptyContainer, ReviewOf("a")}}

InitExtract ==
    /\ arg \in HotelSoups \cup ReviewSoups
    /\ out = None
    /\ applied = FALSE
    /\ PureRest

Extract ==
    /\ ~applied
    /\ out' = [hotel_info |-> extract_hotel_info(arg), reviews |-> extract_reviews(arg)]
    /\ applied' = TRUE
    /\ UNCHANGED <<arg, use_selenium, scrapeVars, fetchVars>>
    /\ UNCHANGED appVars

NextExtract == Extract

SpecExtract == InitExtract /\ [][NextExtract]_vars

(***************************************************************************)
(* The region walker on its own: the extraction of scrape_hotels_by_region *)
(* applied to a region page and a max_hotels.                              *)
(***************************************************************************)
Anchors == {RelativeLink(1), RelativeLink(2), AbsoluteLink, NoHref}

\* the sequences over S of length 0 .. n
SeqsFromZero(S, n) == {<<>>} \cup SeqsUpTo(S, n)

\* region pages: the elements of one locator vary at a time
RegionSoups ==
    {[NoListing EXCEPT !.a_property_title = a] : a \in SeqsFromZero(Anchors, MaxListing)}
        \cup {[NoListing EXCEPT !.a_review_count = a] :
                  a \in SeqsFromZero(Anchors, MaxListing)}
        \cup {[NoListing EXCEPT !.div_listing_title = d] :
                  d \in SeqsFromZero({<<>>, <<RelativeLink(1)>>,
                                      <<AbsoluteLink, RelativeLink(2)>>}, MaxListing)}
        \cup RegionDocs

InitWalk ==
    /\ arg \in [soup : RegionSoups, max_hotels : 1 .. MaxHotelLimit]
    /\ out = None
    /\ applied = FALSE
    /\ PureRest

Walk ==
    /\ ~applied
    /\ out' = region_hotel_urls(arg.soup, arg.max_hotels)
    /\ applied' = TRUE
    /\ UNCHANGED <<arg, use_selenium, scrapeVars, fetchVars>>
    /\ UNCHANGED appVars

NextWalk == Walk

SpecWalk == InitWalk /\ [][NextWalk]_vars

(***************************************************************************)
(* The data processor on its own: clean_data applied to a raw DataFrame,   *)
(* analyze_sentiment and generate_summary to a DataFrame of numeric        *)
(* ratings.                                                                *)
(***************************************************************************)
\* the hotel columns of a DataFrame whose hotel fields were not found
NoHotelInfo == extract_hotel_info(EmptySoup)

\* the fields duplicates are found by: two reviewers, a date text that is
\* read and two that are not, two contents
KeyFields ==
    [reviewer : {<<W("Ann")>>, <<W("Bob")>>},
     date : {<<W("May")>>, NA, <<W("Yesterday")>>},
     content : {<<W("c1")>>, <<W("c2")>>}]

\* raw DataFrames of reviews with the given key fields; the title tells the
\* rows apart
DuplicateFrames ==
    {DataFrame([j \in 1 .. Len(s) |->
                   [title |-> <<W("t"), N(j)>>, rating |-> <<D(50)>>] @@ s[j]],
               NoHotelInfo) : s \in SeqsUpTo(KeyFields, MaxRecords)}

\* rating texts of the extractor: "4.5", "5.0", "N/A"; None for a review
\* without the key
RatingTexts == {<<D(45)>>, <<W("5"), W("."), W("0")>>, NA, None}

\* a review whose fields other than the rating are found; the content tells
\* the rows apart
RatedReview(j, rating) ==
    LET review == [title |-> <<W("t")>>, content |-> <<W("c"), N(j)>>,
                   reviewer |-> <<W("Ann")>>, date |-> <<W("May")>>]
    IN  IF rating = None THEN review ELSE [rating |-> rating] @@ review

\* raw DataFrames of reviews with the given rating texts
RatingFrames ==
    {DataFrame([j \in 1 .. Len(s) |-> RatedReview(j, s[j])], NoHotelInfo) :
        s \in SeqsUpTo(RatingTexts, MaxRecords)}

RawFrames == {<<>>} \cup DuplicateFrames \cup RatingFrames

\* numeric ratings: null, and the floats around the two limits
Ratings == {NaN, Float(50), Float(40), Float(39), Float(30), Float(29), Float(10)}

\* DataFrames of reviews with numeric ratings and dates; one has no rating
\* column
NumericFrames ==
    {[j \in 1 .. Len(s) |->
         [RatedReview(j, s[j]) EXCEPT !.date = IF j = 1 THEN NaT ELSE Timestamp(5)]] :
        s \in SeqsUpTo(Ratings, MaxRatings)}
        \cup {<<>>, <<RatedReview(1, None)>>}

InitProcess ==
    /\ arg \in [fn : {"clean_data"}, df : RawFrames]
           \cup [fn : {"analyze_sentiment"}, df : NumericFrames]
           \cup [fn : {"generate_summary"},
                 df : {analyze_sentiment(f) : f \in NumericFrames}]
    /\ out = None
    /\ applied = FALSE
    /\ PureRest

CleanData ==
    /\ ~applied
    /\ arg.fn = "clean_data"
    /\ out' = clean_data(arg.df)
    /\ applied' = TRUE
    /\ UNCHANGED <<arg, use_selenium, scrapeVars, fetchVars>>
    /\ UNCHANGED appVars

AnalyzeSentiment ==
    /\ ~applied
    /\ arg.fn = "analyze_sentiment"
    /\ out' = analyze_sentiment(arg.df)
    /\ applied' = TRUE
    /\ UNCHANGED <<arg, use_selenium, scrapeVars, fetchVars>>
    /\ UNCHANGED appVars

GenerateSummary ==
    /\ ~applied
    /\ arg.fn = "generate_summary"
    /\ out' = generate_summary(arg.df)
    /\ applied' = TRUE
    /\ UNCHANGED <<arg, use_selenium, scrapeVars, fetchVars>>
    /\ UNCHANGED appVars

NextProcess ==
    \/ CleanData
    \/ AnalyzeSentiment
    \/ GenerateSummary

SpecProcess == InitProcess /\ [][NextProcess]_vars

(***************************************************************************)
(* The database on its own: calls of save_hotel, and calls of save_reviews, *)
(* one after the other, on tables that start empty.                        *)
(***************************************************************************)
InitStore ==
    /\ use_selenium = FALSE
    /\ url = None
    /\ max_pages = 0
    /\ pc = "none"
    /\ NoScrape
    /\ arg = None
    /\ out = None
    /\ applied = FALSE
    /\ max_hotels = 0
    /\ NoApp

\* the two tables do not meet in these calls (foreign keys are not enforced
\* by a connection that does not ask for it): each is followed on its own
NextHotels == SaveHotel

SpecHotels == InitStore /\ [][NextHotels]_vars

NextReviews == SaveReviews

SpecReviews == InitStore /\ [][NextReviews]_vars

NextHistory ==
    \/ SaveSearchHistory
    \/ ClearSearchHistory

SpecHistory == InitStore /\ [][NextHistory]_vars

(***************************************************************************)
(* save_hotel on MaxThreads threads at once, on a table that is empty or   *)
(* holds a hotel.                                                          *)
(***************************************************************************)
InitThreads ==
    /\ use_selenium = FALSE
    /\ url = None
    /\ max_pages = 0
    /\ pc = "none"
    /\ NoScrape
    /\ arg = None
    /\ out = None
    /\ applied = FALSE
    /\ max_hotels = 0
    /\ hotels \in {<<>>} \cup {save_hotel(<<>>, d).rows : d \in HotelData}
    /\ stored_reviews = <<>>
    /\ search_history = <<>>
    /\ last_call = [op |-> "none"]
    /\ task_pc = "none"
    /\ hotel_urls = <<>>
    /\ combined_df = <<>>
    /\ task_log = <<>>
    /\ threads \in [1 .. MaxThreads ->
                       [pc : {"call"}, hotel_data : HotelData, found : {0}, ret : {0}]]
    /\ writer = 0
    /\ tasks = <<>>
    /\ session_state = NoSession

NextThreads ==
    \/ ThreadSelect
    \/ ThreadWrite
    \/ ThreadIntegrityError
    \/ ThreadLocked
    \/ ThreadCommit

SpecThreads == InitThreads /\ [][NextThreads]_vars

(***************************************************************************)
(* The region task on its own, from the call of scrape_hotels_by_region on, *)
(* on tables that start empty.                                             *)
(***************************************************************************)
InitRegion ==
    /\ use_selenium = TRUE
    /\ url = RegionUrl
    /\ max_pages = 0
    /\ pc = "none"
    /\ NoScrape
    /\ arg = None
    /\ out = None
    /\ applied = FALSE
    /\ max_hotels \in 1 .. MaxHotelLimit
    /\ hotels = <<>>
    /\ stored_reviews = <<>>
    /\ search_history = <<>>
    /\ last_call = [op |-> "none"]
    /\ task_pc = "walk"
    /\ hotel_urls = <<>>
    /\ combined_df = <<>>
    /\ task_log = <<>>
    /\ threads = <<>>
    /\ writer = 0
    /\ tasks = <<>>
    /\ session_state = NoSession

NextRegion ==
    \/ TaskWalk
    \/ TaskHotel
    \/ TaskEnd

SpecRegion == InitRegion /\ [][NextRegion]_vars

(***************************************************************************)
(* A session in which the buttons are clicked up to MaxTasks times, on an  *)
(* empty database.                                                         *)
(***************************************************************************)
InitSession ==
    /\ use_selenium = FALSE
    /\ url = None
    /\ max_pages = 0
    /\ pc = "none"
    /\ NoScrape
    /\ arg = None
    /\ out = None
    /\ applied = FALSE
    /\ max_hotels \in 1 .. MaxHotelLimit
    /\ NoApp

NextSession ==
    \/ ClickScrapeHotel
    \/ ClickScrapeRegion
    \/ TaskStart
    \/ HotelTaskScrape
    \/ HotelTaskSave
    \/ RegionTaskWalk
    \/ RegionTaskPass
    \/ RegionTaskEnd

SpecSession == InitSession /\ [][NextSession]_vars

(***************************************************************************)
(* Properties of the fetcher (checked under Spec).                         *)
(***************************************************************************)
\* C1: a fetch makes at most 5 attempts, and an attempt that succeeds is the
\* last one of its fetch: the fetch has returned, with that attempt's payload
C1_AtMostFiveAttempts ==
    /\ Len(attempt_log) <= 5
    /\ sleeps = Len(attempt_log)
    /\ \A i \in 1 .. Len(attempt_log) :
          attempt_log[i].ok =>
              /\ i = Len(attempt_log)
              /\ fetch_state = "returned"
              /\ fetch_value = attempt_log[i].value
    /\ fetch_state = "returned" =>
          /\ attempt_log # <<>>
          /\ attempt_log[Len(attempt_log)].ok

\* a fetch returned at its third attempt
C1_Witness ==
    /\ fetch_state = "returned"
    /\ Len(attempt_log) = 3
    /\ ~attempt_log[1].ok /\ ~attempt_log[2].ok /\ attempt_log[3].ok

NonDecreasing(s) == \A i \in 1 .. Len(s) - 1 : s[i] <= s[i + 1]

\* C2: when the first n attempts fail with transport failures and attempt
\* n + 1 succeeds, the backoff delay was applied exactly n times, each delay
\* within 4 .. 60 seconds, the delays non-decreasing
C2_BackoffDelays ==
    (/\ fetch_state = "returned"
     /\ \A i \in 1 .. Len(attempt_log) - 1 :
           ~attempt_log[i].ok /\ attempt_log[i].value \in RequestExceptions)
    => /\ Len(waits) = Len(attempt_log) - 1
       /\ \A i \in 1 .. Len(waits) : waits[i] >= 4 /\ waits[i] <= 60
       /\ NonDecreasing(waits)

\* four transport failures, then the payload after exactly four delays
C2_Witness ==
    /\ fetch_state = "returned"
    /\ Len(attempt_log) = 5
    /\ Len(waits) = 4
    /\ fetch_value = attempt_log[5].value

AllFiveFailInTransport ==
    /\ Len(attempt_log) = 5
    /\ \A i \in 1 .. 5 :
          ~attempt_log[i].ok /\ attempt_log[i].value \in RequestExceptions

\* C3 as stated: when all 5 attempts fail with a connection, timeout or
\* HTTP-error exception, the fetch fails with that transport failure itself
C3_AsStated ==
    AllFiveFailInTransport =>
        /\ fetch_state = "raised"
        /\ fetch_value.exc \in RequestExceptions

\* C3 amended: when all 5 attempts fail with a connection, timeout or
\* HTTP-error exception, the fetch fails with the decorator's RetryError,
\* which carries the transport failure of the last attempt; no payload
C3_RetryErrorWrapsFailure ==
    AllFiveFailInTransport =>
        /\ fetch_state = "raised"
        /\ fetch_value.exc = "RetryError"
        /\ fetch_value.last = attempt_log[5].value
        /\ fetch_value.last \in RequestExceptions

\* five attempts ended in a timeout each
C3_Witness ==
    /\ AllFiveFailInTransport
    /\ \A i \in 1 .. 5 : attempt_log[i].value = "Timeout"
    /\ fetch_state = "raised"

\* C4: under either strategy a failed attempt is retried, up to 5 attempts,
\* with the backoff between the attempts and the pacing sleep before each:
\* a fetch gives up only after 5 attempts and 4 backoff delays
C4_BothStrategiesRetry ==
    fetch_state = "raised" =>
        /\ Len(attempt_log) = 5
        /\ Len(waits) = 4
        /\ sleeps = 5

(***************************************************************************)
(* Properties of the paginator (checked under SpecPages).                  *)
(***************************************************************************)
\* ceil(a / b) for a >= 0
CeilDiv(a, b) == IF a % b = 0 THEN a \div b ELSE (a \div b) + 1

MarkedUrlPaginated ==
    /\ applied
    /\ Contains(arg.base_url, ReviewsMarker)
    /\ arg.total_reviews >= 0

\* C5 as stated: for totalReviews >= 0 and a base URL with the marker the
\* paginator returns exactly min(ceil(totalReviews / 10), 50) URLs
C5_AsStated ==
    MarkedUrlPaginated => Len(out) = Min(CeilDiv(arg.total_reviews, 10), 50)

\* C5 amended: for totalReviews >= 0 and a base URL with the marker the
\* paginator returns exactly max(1, min(ceil(totalReviews / 10), 50)) URLs:
\* 10 URLs for 95 reviews, 50 URLs for 1000 reviews, 1 URL for no review
C5_PageCount ==
    MarkedUrlPaginated =>
        /\ Len(out) = Max(1, Min(CeilDiv(arg.total_reviews, 10), 50))
        /\ arg.total_reviews = 95 => Len(out) = 10
        /\ arg.total_reviews = 1000 => Len(out) = 50

\* 1000 reviews paginated: the cap applies
C5_Witness ==
    /\ MarkedUrlPaginated
    /\ arg.total_reviews = 1000
    /\ Len(out) = 50

\* the base URL with the offset token inserted at the marker position
InsertOffset(base_url, offset) ==
    LET k == IndexOf(base_url, ReviewsMarker, 1)
    IN  SubSeq(base_url, 1, k) \o <<W("or"), N(offset), W("-")>>
            \o SubSeq(base_url, k + 1, Len(base_url))

\* C6: the first URL returned is the base URL, unmodified; the URL at index
\* i >= 1 (counted from 0) is the base URL with the offset i * 10 inserted at
\* the marker position; the URLs are pairwise distinct
C6_AsStated ==
    applied =>
        /\ out[1] = arg.base_url
        /\ \A i \in 2 .. Len(out) : out[i] = InsertOffset(arg.base_url, (i - 1) * 10)
        /\ \A i, j \in 1 .. Len(out) : i # j => out[i] # out[j]

\* C8: for a base URL without the marker the paginator returns the list of
\* the base URL alone, whatever the total review count
C8_NoMarkerSinglePage ==
    (applied /\ ~Contains(arg.base_url, ReviewsMarker)) => out = <<arg.base_url>>

\* a URL without the marker paginated for 1000 reviews
C8_Witness ==
    /\ applied
    /\ ~Contains(arg.base_url, ReviewsMarker)
    /\ arg.total_reviews = 1000
    /\ out = <<arg.base_url>>

(***************************************************************************)
(* Properties of the hotel scrape (checked under Spec).                    *)
(***************************************************************************)
\* C7: with a page limit L >= 1 the scrape fetches at most L pages: the base
\* URL first, and no fetch after the first is of the base URL
C7_PageLimit ==
    max_pages >= 1 =>
        /\ Len(fetched) <= max_pages
        /\ fetched # <<>> => fetched[1] = url
        /\ \A i \in 2 .. Len(fetched) : fetched[i] # url

\* a scrape limited to 2 pages of a hotel that has more
C7_Witness ==
    /\ pc = "done"
    /\ max_pages = 2
    /\ Len(fetched) = 2
    /\ DOMAIN hotel_info # {}
    /\ IntOf(hotel_info.total_reviews) > 20

RECURSIVE LoggedReviews(_)
\* the reviews of the pages that succeeded, in the order of the pages
LoggedReviews(log) ==
    IF log = <<>> THEN <<>>
    ELSE (IF Head(log).ok THEN Head(log).reviews ELSE <<>>) \o LoggedReviews(Tail(log))

\* C10: the failure of a page after the first does not end the scrape: every
\* page URL after it is fetched, in order, and the reviews returned are those
\* of the first page and of every page that succeeded
C10_PageFailureIsolated ==
    (pc = "done" /\ DOMAIN result.hotel_info # {}) =>
        LET planned == LimitPages(
                generate_pagination_urls(url, IntOf(hotel_info.total_reviews)),
                max_pages)
            flat == LoggedReviews(page_log)
        IN  /\ fetched = <<url>> \o SubSeq(planned, 2, Len(planned))
            /\ Len(page_log) = Len(fetched)
            /\ Len(result.df) = Len(flat)
            /\ \A j \in 1 .. Len(flat) :
                  \A k \in DOMAIN flat[j] : result.df[j][k] = flat[j][k]

\* the second page failed, the third was scraped and its reviews returned
C10_Witness ==
    /\ pc = "done"
    /\ Len(page_log) = 3
    /\ ~page_log[2].ok
    /\ page_log[3].ok /\ page_log[3].reviews # <<>>
    /\ Len(result.df) = Len(page_log[1].reviews) + Len(page_log[3].reviews)

\* C11: scrape_hotel and scrape_hotels_by_region let no exception reach their
\* caller: a call that is over has returned a value, and when the fetch of
\* the first page (or of the region page) failed, retry exhaustion included,
\* the value is the degraded one: no review with an empty hotel info, or an
\* empty URL list
C11_FailuresDegrade ==
    /\ pc # "raised"
    /\ pc = "done" =>
          /\ "df" \in DOMAIN result /\ "hotel_info" \in DOMAIN result
          /\ DOMAIN result.hotel_info = {} => Len(result.df) = 0
          /\ ~page_log[1].ok =>
                Len(result.df) = 0 /\ DOMAIN result.hotel_info = {}
    /\ pc = "region_done" =>
          /\ DOMAIN result = {"hotel_urls"}
          /\ ~page_log[1].ok => result.hotel_urls = <<>>

\* the HTTP strategy exhausted its attempts on the first page and the hotel
\* scrape returned the degraded result
C11_Witness ==
    /\ ~use_selenium
    /\ pc = "done"
    /\ ~page_log[1].ok
    /\ Len(result.df) = 0
    /\ DOMAIN result.hotel_info = {}

(***************************************************************************)
(* Properties of the region walker (checked under SpecWalk).               *)
(***************************************************************************)
\* C13: the region walker returns at most max_hotels URLs, each the site
\* origin followed by a path that starts with "/", and the empty list when
\* no locator matches an element
C13_BoundedAbsoluteUrls ==
    applied =>
        /\ Len(out) <= arg.max_hotels
        /\ \A k \in 1 .. Len(out) :
              /\ Len(out[k]) >= 2
              /\ out[k][1] = Origin
              /\ out[k][2] = W("/")
        /\ (/\ arg.soup.a_property_title = <<>>
            /\ arg.soup.a_review_count = <<>>
            /\ arg.soup.div_listing_title = <<>>) => out = <<>>

\* a region page listing more hotels than max_hotels: the list is cut
C13_Witness ==
    /\ applied
    /\ Len(arg.soup.a_property_title) > arg.max_hotels
    /\ Len(out) = arg.max_hotels

(***************************************************************************)
(* Properties of the data processor (checked under SpecProcess).           *)
(***************************************************************************)
Cleaned == applied /\ arg.fn = "clean_data"

\* the fields clean_data finds the duplicates by: the reviewer, the calendar
\* date the date text is read as (one null for every text that is not read)
\* and the content
CleanKey(row) == <<row.reviewer, to_datetime(row.date), row.content>>

\* C14: clean(records) has no two records with the same (reviewer, date,
\* content), the date being the calendar date clean reads; it keeps exactly
\* the first record of each such triple, in the order of the records;
\* [(A,d,c1),(A,d,c1),(B,d,c2)] yields 2 records
C14_FirstOccurrenceKept ==
    Cleaned =>
        LET firsts == {j \in 1 .. Len(arg.df) :
                          \A i \in 1 .. j - 1 :
                              CleanKey(arg.df[i]) # CleanKey(arg.df[j])}
            rank(j) == Cardinality({i \in firsts : i <= j})
        IN  /\ \A a, b \in 1 .. Len(out) :
                  a # b => DuplicateKey(out[a]) # DuplicateKey(out[b])
            /\ Len(out) = Cardinality(firsts)
            /\ \A j \in firsts :
                  /\ out[rank(j)].title = arg.df[j].title
                  /\ DuplicateKey(out[rank(j)]) = CleanKey(arg.df[j])
            /\ (/\ Len(arg.df) = 3
                /\ CleanKey(arg.df[1]) = CleanKey(arg.df[2])
                /\ CleanKey(arg.df[3]) # CleanKey(arg.df[1])) => Len(out) = 2

\* the example cleaned: the second record dropped, the first and the third
\* kept in their order
C14_Witness ==
    /\ Cleaned
    /\ Len(arg.df) = 3
    /\ CleanKey(arg.df[1]) = <<<<W("Ann")>>, Timestamp(5), <<W("c1")>>>>
    /\ CleanKey(arg.df[2]) = CleanKey(arg.df[1])
    /\ CleanKey(arg.df[3]) = <<<<W("Bob")>>, Timestamp(5), <<W("c2")>>>>
    /\ Len(out) = 2
    /\ out[1].title = arg.df[1].title
    /\ out[2].title = arg.df[3].title

IsFloat(cell) == Len(cell) = 1 /\ cell[1][1] = "f"

\* C15 as stated: after clean every rating is numeric or null, never a raw
\* text, and a record whose raw rating text is "N/A" has a null rating
C15_AsStated ==
    Cleaned =>
        \A j \in 1 .. Len(out) :
            "rating" \in DOMAIN out[j] =>
                /\ out[j].rating = NaN \/ IsFloat(out[j].rating)
                /\ (Len(out) = Len(arg.df) /\ arg.df[j].rating = NA)
                      => out[j].rating = NaN

\* C15 amended: after clean every rating is numeric, never null and never a
\* raw text: a record whose raw rating text is not read as a number ("N/A"),
\* or that has no rating where other records have one, has the rating 0.0
C15_RatingsNumeric ==
    Cleaned =>
        \A j \in 1 .. Len(out) :
            "rating" \in DOMAIN out[j] =>
                /\ IsFloat(out[j].rating)
                /\ (Len(out) = Len(arg.df) /\ arg.df[j].rating \in {NA, NaN})
                      => out[j].rating = Float(0)

\* a record with the rating text "N/A" cleaned: its rating is 0.0
C15_Witness ==
    /\ Cleaned
    /\ Len(arg.df) = 2
    /\ Len(out) = 2
    /\ "rating" \in Columns(arg.df)
    /\ arg.df[1].rating = NA
    /\ out[1].rating = Float(0)
    /\ arg.df[2].rating = <<D(45)>>
    /\ out[2].rating = Float(45)

\* C16: for every rating r of a record set, the label is Unknown iff r is
\* null, Positive iff r >= 4, Neutral iff 3 <= r < 4, Negative iff r < 3 and
\* r is not null; each record gets exactly one label
C16_SentimentBands ==
    (applied /\ arg.fn = "analyze_sentiment" /\ "rating" \in Columns(arg.df)) =>
        /\ Len(out) = Len(arg.df)
        /\ \A j \in 1 .. Len(out) :
              LET r == arg.df[j].rating
                  label == out[j].sentiment
              IN  /\ label \in {"Unknown", "Positive", "Neutral", "Negative"}
                  /\ label = "Unknown" <=> r = NaN
                  /\ label = "Positive" <=> (r # NaN /\ r[1][2] >= 40)
                  /\ label = "Neutral" <=>
                        (r # NaN /\ r[1][2] >= 30 /\ r[1][2] < 40)
                  /\ label = "Negative" <=> (r # NaN /\ r[1][2] < 30)
                  /\ r = Float(40) => label = "Positive"
                  /\ r = Float(30) => label = "Neutral"

\* the ratings null, 4.0, 3.0 and 2.9 labelled
C16_Witness ==
    /\ applied
    /\ arg.fn = "analyze_sentiment"
    /\ Len(arg.df) = 4
    /\ arg.df[1].rating = NaN /\ out[1].sentiment = "Unknown"
    /\ arg.df[2].rating = Float(40) /\ out[2].sentiment = "Positive"
    /\ arg.df[3].rating = Float(30) /\ out[3].sentiment = "Neutral"
    /\ arg.df[4].rating = Float(29) /\ out[4].sentiment = "Negative"

\* the ratings of a record set that are not null
RatedCells(df) ==
    IF "rating" \in Columns(df)
    THEN SelectSeq([j \in 1 .. Len(df) |-> df[j].rating], LAMBDA c : c # NaN)
    ELSE <<>>

\* C17: the summary of a record set has totalCount equal to the number of
\* records and averageRating equal to the mean of the ratings that are not
\* null, 0 when there is none (the empty record set included); the ratings
\* [5, 5, 3, 1] give totalCount 4 and averageRating 3.5
C17_AsStated ==
    (applied /\ arg.fn = "generate_summary") =>
        LET rated == RatedCells(arg.df)
            average == out.average_rating
        IN  /\ out.total_reviews = Len(arg.df)
            /\ average.count # 0
            /\ average.sum * Len(rated) = SumTenths(rated) * average.count
            /\ rated = <<>> => average.sum = 0
            /\ arg.df = <<>> =>
                  /\ DOMAIN out.sentiment_counts = {}
                  /\ DOMAIN out.reviews_by_month = {}
            /\ (/\ Len(arg.df) = 4
                /\ \A j \in 1 .. 4 :
                      arg.df[j].rating = <<Float(50), Float(50), Float(30), Float(10)>>[j])
                  => /\ out.total_reviews = 4
                     /\ average.sum = 35 * average.count

(***************************************************************************)
(* Properties of the database (checked under SpecHotels and SpecReviews).  *)
(***************************************************************************)
\* C18: after any sequence of save_hotel calls there is at most one row per
\* url; a call with a url not stored inserts one row and returns its new
\* positive id; a call with a stored url adds no row, updates name, location,
\* rating and total_reviews of that row and returns its id; a call that
\* fails returns a negative value
C18_AsStated ==
    [][last_call'.op = "save_hotel" =>
          LET hotel_data == last_call'.args
              found == select_hotel(hotels, hotel_data.url)
              mutable == {"name", "location", "rating", "total_reviews"}
          IN  /\ \A a, b \in 1 .. Len(hotels') :
                    a # b => hotels'[a].url # hotels'[b].url
              /\ last_call'.outcome = "returned"
              /\ last_call'.ret # 0
              /\ last_call'.ret < 0 => hotels' = hotels
              /\ (last_call'.ret > 0 /\ found = {}) =>
                    /\ Len(hotels') = Len(hotels) + 1
                    /\ SubSeq(hotels', 1, Len(hotels)) = hotels
                    /\ hotels'[Len(hotels')].id = last_call'.ret
                    /\ hotels'[Len(hotels')].url = hotel_data.url
                    /\ \A c \in mutable : hotels'[Len(hotels')][c] = hotel_data[c]
                    /\ \A j \in 1 .. Len(hotels) : hotels[j].id # last_call'.ret
              /\ (last_call'.ret > 0 /\ found # {}) =>
                    /\ Len(hotels') = Len(hotels)
                    /\ \A j \in 1 .. Len(hotels) :
                          IF j \in found
                          THEN /\ hotels'[j].id = hotels[j].id
                               /\ hotels'[j].id = last_call'.ret
                               /\ hotels'[j].url = hotels[j].url
                               /\ \A c \in mutable : hotels'[j][c] = hotel_data[c]
                          ELSE hotels'[j] = hotels[j]]_vars

\* the fields save_reviews looks a stored review up by
ReviewKey(row) == <<row.hotel_id, row.reviewer, row.date, row.content>>

\* C19: no two stored reviews share (hotel_id, reviewer, date, content);
\* save_reviews never changes or removes a stored review; a call that
\* returns True has added, for each key of the batch that was not stored,
\* the first record of the batch with that key and nothing else; the same
\* batch saved a second time leaves the stored reviews as they are
C19_NoDuplicateReviews ==
    [][/\ \A a, b \in 1 .. Len(stored_reviews') :
             a # b => ReviewKey(stored_reviews'[a]) # ReviewKey(stored_reviews'[b])
       /\ Len(stored_reviews') >= Len(stored_reviews)
       /\ SubSeq(stored_reviews', 1, Len(stored_reviews)) = stored_reviews
       /\ (/\ last_call'.op = "save_reviews"
           /\ last_call'.outcome = "returned"
           /\ last_call'.ret = TRUE) =>
             LET hotel_id == last_call'.args.hotel_id
                 batch == last_call'.args.reviews
                 key(j) == <<hotel_id, batch[j].reviewer, batch[j].date,
                             batch[j].content>>
                 firsts == {j \in 1 .. Len(batch) :
                               /\ \A i \in 1 .. j - 1 : key(i) # key(j)
                               /\ \A a \in 1 .. Len(stored_reviews) :
                                     ReviewKey(stored_reviews[a]) # key(j)}
             IN  /\ Len(stored_reviews') = Len(stored_reviews) + Cardinality(firsts)
                 /\ \A j \in firsts :
                       \E a \in Len(stored_reviews) + 1 .. Len(stored_reviews') :
                           /\ ReviewKey(stored_reviews'[a]) = key(j)
                           /\ stored_reviews'[a].title = batch[j].title
       /\ (/\ last_call.op = "save_reviews"
           /\ last_call.outcome = "returned"
           /\ last_call.ret = TRUE
           /\ last_call'.op = "save_reviews"
           /\ last_call'.args = last_call.args) =>
             stored_reviews' = stored_reviews]_vars

\* a batch of two records that collide was saved after a record of another
\* hotel: one row of the batch is stored, the first
C19_Witness ==
    /\ last_call.op = "save_reviews"
    /\ last_call.outcome = "returned"
    /\ last_call.ret = TRUE
    /\ last_call.args.hotel_id = 2
    /\ Len(last_call.args.reviews) = 2
    /\ last_call.args.reviews[1].reviewer = last_call.args.reviews[2].reviewer
    /\ last_call.args.reviews[1].date = last_call.args.reviews[2].date
    /\ last_call.args.reviews[1].title = <<W("t2")>>
    /\ last_call.args.reviews[2].title = <<W("t1")>>
    /\ Len(stored_reviews) = 2
    /\ stored_reviews[1].hotel_id = 1
    /\ stored_reviews[2].hotel_id = 2
    /\ stored_reviews[2].title = <<W("t2")>>

(***************************************************************************)
(* Properties of save_hotel on several threads (checked under SpecThreads). *)
(***************************************************************************)
\* C20: when calls of save_hotel for the same url on different threads
\* have all returned, whatever their interleaving, exactly one row has that
\* url and every one of the calls has returned the id of that row, a
\* positive id and not -1
C20_AsStated ==
    \A t, u \in DOMAIN threads :
        (/\ t # u
         /\ threads[t].hotel_data.url = threads[u].hotel_data.url
         /\ threads[t].pc = "done"
         /\ threads[u].pc = "done") =>
            LET found == select_hotel(hotels, threads[t].hotel_data.url)
            IN  /\ Cardinality(found) = 1
                /\ threads[t].ret > 0
                /\ \A j \in found : hotels[j].id = threads[t].ret

(***************************************************************************)
(* Properties of the region task (checked under SpecRegion).               *)
(***************************************************************************)
\* the DataFrames of the passes that raised nothing, put together in the
\* order of the passes
RECURSIVE Succeeded(_)
Succeeded(log) ==
    IF log = <<>> THEN <<>>
    ELSE LET before == Succeeded(SubSeq(log, 1, Len(log) - 1))
             last == log[Len(log)]
         IN  IF ~last.raised /\ last.df # <<>> THEN concat(before, last.df)
             ELSE before

\* C12: in a region task over the hotel URLs h1..hn, a pass that fails is
\* skipped: the passes are made for h1, h2, ... in order, the task does not
\* end before the pass for hn, and combined_df holds the reviews of the
\* hotels whose pass did not fail
C12_FailedHotelSkipped ==
    task_pc \in {"loop", "done"} =>
        /\ Len(task_log) <= Len(hotel_urls)
        /\ \A j \in 1 .. Len(task_log) : task_log[j].url = hotel_urls[j]
        /\ task_pc = "done" => Len(task_log) = Len(hotel_urls)
        /\ combined_df = Succeeded(task_log)

\* a task over two hotels has ended: the pass for the first failed, the
\* second hotel was scraped and its reviews are the combined result
C12_Witness ==
    /\ task_pc = "done"
    /\ Len(hotel_urls) = 2
    /\ Len(task_log) = 2
    /\ task_log[1].raised
    /\ task_log[1].df # <<>>
    /\ ~task_log[2].raised
    /\ Len(task_log[2].df) = 2
    /\ combined_df = task_log[2].df

(***************************************************************************)
(* Properties of the extractor (checked under SpecExtract).                *)
(***************************************************************************)
\* C9: a field no locator of which matches is set to its default, "N/A" or
\* "0" for the review count, in the hotel record and in every review record
C9_DefaultsOnMiss ==
    applied =>
        /\ (arg.h1_HEADING = None /\ arg.h1_QdLfr = None)
              => out.hotel_info.name = <<W("N/A")>>
        /\ (arg.span_biGQs = <<>> /\ arg.div_AYHFM = None)
              => out.hotel_info.location = <<W("N/A")>>
        /\ arg.span_biGQs = <<>> => out.hotel_info.total_reviews = <<N(0)>>
        /\ (arg.div_grdwI = None /\ arg.span_uwJeR = None)
              => out.hotel_info.rating = <<W("N/A")>>
        /\ Len(out.reviews) = Len(review_containers(arg))
        /\ \A j \in 1 .. Len(out.reviews) :
              LET c == review_containers(arg)[j]
                  r == out.reviews[j]
              IN  /\ (c.span_JbGkU = None /\ c.span_noQuotes = None)
                        => r.title = <<W("N/A")>>
                  /\ (c.span_orRIx = None /\ c.p_partial_entry = None)
                        => r.content = <<W("N/A")>>
                  /\ (c.div_tVWyV = None /\ c.div_info_text = None)
                        => r.reviewer = <<W("N/A")>>
                  /\ (c.div_tVWyV = None /\ c.span_ratingDate = None)
                        => r.date = <<W("N/A")>>
                  /\ (~c.div_kmMXA /\ c.span_ui_bubble_rating = None)
                        => "rating" \in DOMAIN r /\ r.rating = <<W("N/A")>>

\* a document with a review container in which no locator matches
C9_Witness ==
    /\ applied
    /\ arg.span_biGQs = <<>>
    /\ arg.h1_HEADING = None /\ arg.h1_QdLfr = None
    /\ Len(out.reviews) = 2
    /\ review_containers(arg)[1] = EmptyContainer
    /\ out.reviews[1].title = <<W("N/A")>>
    /\ out.reviews[1].rating = <<W("N/A")>>
    /\ out.hotel_info.total_reviews = <<N(0)>>

\* C23: the total_reviews of every hotel record the extractor makes is a
\* non-negative integer, and it is 0 when the locator of the review count
\* finds nothing or its text has no word "reviews"; so scrape_hotel can
\* always make the page count of it
C23_AsStated ==
    applied =>
        /\ IntParses(out.hotel_info.total_reviews)
        /\ IntOf(out.hotel_info.total_reviews) >= 0
        /\ (arg.span_biGQs = <<>> \/ ~HasReviewsWord(arg.span_biGQs[1]))
              => out.hotel_info.total_reviews = <<N(0)>>

\* the locator found nothing, or an element without text
Empty(found) == found = None \/ Strip(found) = <<>>

\* C26: for every field with a fallback locator, the fallback is tried when
\* the primary locator matches nothing or gives an empty value, the first
\* locator that matches gives the field, and the default is given only when
\* every locator of the field has failed
C26_AsStated ==
    applied =>
        /\ ~Empty(arg.h1_HEADING) => out.hotel_info.name = Strip(arg.h1_HEADING)
        /\ (Empty(arg.h1_HEADING) /\ arg.h1_QdLfr # None)
              => out.hotel_info.name = Strip(arg.h1_QdLfr)
        /\ out.hotel_info.name = NA => (Empty(arg.h1_HEADING) /\ arg.h1_QdLfr = None)
        /\ ~Empty(arg.div_grdwI) => out.hotel_info.rating = Strip(arg.div_grdwI)
        /\ (Empty(arg.div_grdwI) /\ arg.span_uwJeR # None)
              => out.hotel_info.rating = Strip(arg.span_uwJeR)
        /\ out.hotel_info.rating = NA
              => (Empty(arg.div_grdwI) /\ arg.span_uwJeR = None)
        /\ \A j \in 1 .. Len(out.reviews) :
              LET c == review_containers(arg)[j]
                  r == out.reviews[j]
              IN  /\ ~Empty(c.span_JbGkU) => r.title = Strip(c.span_JbGkU)
                  /\ (Empty(c.span_JbGkU) /\ c.span_noQuotes # None)
                        => r.title = Strip(c.span_noQuotes)
                  /\ r.title = NA => (Empty(c.span_JbGkU) /\ c.span_noQuotes = None)
                  /\ ~Empty(c.span_orRIx) => r.content = Strip(c.span_orRIx)
                  /\ (Empty(c.span_orRIx) /\ c.p_partial_entry # None)
                        => r.content = Strip(c.p_partial_entry)
                  /\ r.content = NA
                        => (Empty(c.span_orRIx) /\ c.p_partial_entry = None)

\* C27: a review whose rating is read from the bubble-rating span has the
\* number after "bubble_" in a class of the span, divided by 10, for its
\* rating when such a number is read, and "N/A" otherwise; the review record
\* has a rating key in every case
C27_AsStated ==
    applied =>
        \A j \in 1 .. Len(out.reviews) :
            LET c == review_containers(arg)[j]
                r == out.reviews[j]
                classes == c.span_ui_bubble_rating
                decoded == {i \in 1 .. Len(classes) :
                               StartsWithBubble(classes[i]) /\ IsNum(classes[i][2])}
            IN  /\ "rating" \in DOMAIN r
                /\ (~c.div_kmMXA /\ classes # None) =>
                      IF decoded = {} THEN r.rating = NA
                      ELSE \E i \in decoded : r.rating = <<D(classes[i][2][2])>>

(***************************************************************************)
(* Properties of a hotel scrape (checked under Spec and SpecScrape).       *)
(***************************************************************************)
RECURSIVE PageReviews(_)
\* the reviews of the logged pages in the order of their fetches
PageReviews(log) ==
    IF log = <<>> THEN <<>> ELSE Head(log).reviews \o PageReviews(Tail(log))

\* C24: the reviews a hotel scrape returns are in the order of the page
\* fetches, and inside one page in the order of the document: the first
\* page fetched is the base URL, and the rows of the DataFrame are the
\* reviews of the first page, then those of the second, and so on
C24_PageOrder ==
    (pc = "done" /\ result # Degraded) =>
        /\ fetched[1] = url
        /\ result.df = DataFrame(PageReviews(page_log), result.hotel_info)
        /\ \A i \in 1 .. Len(page_log) :
              ~page_log[i].ok => page_log[i].reviews = <<>>

\* two pages with different reviews were scraped
C24_Witness ==
    /\ pc = "done"
    /\ result # Degraded
    /\ Len(page_log) >= 2
    /\ page_log[1].reviews = <<extract_review(ReviewOf("b")), extract_review(ReviewOf("a"))>>
    /\ page_log[2].reviews = <<extract_review(ReviewOf("a"))>>
    /\ Len(result.df) = 3

\* C25: a hotel scrape ends: one page is fetched at a time, at most 50
\* pages are fetched, each with at most 5 attempts (so at most 250 attempts
\* in all), and the call ends with its result
C25_Terminates ==
    /\ [](/\ Len(fetched) <= max_num_pages
          /\ Len(fetched) + Len(pagination_urls) <= max_num_pages + 1
          /\ Len(attempt_log) <= stop_after_attempt
          /\ attempt_number <= stop_after_attempt
          /\ (fetch_state = "running" => fetch_url = fetched[Len(fetched)]))
    /\ (pc = "call" ~> (pc = "done" /\ fetch_state = "idle"))

\* the scrape has ended after two fetches, one of which failed
C25_Witness ==
    /\ pc = "done"
    /\ Len(fetched) = 2
    /\ \E i \in 1 .. Len(page_log) : ~page_log[i].ok

(***************************************************************************)
(* Properties of the reviews table (checked under SpecReviews).            *)
(***************************************************************************)
\* C29: a call of save_reviews that returns False because of an error at
\* some record of its batch stores no record of the batch: the stored
\* reviews are those stored before the call
C29_AllOrNothing ==
    [][(/\ last_call'.op = "save_reviews"
        /\ last_call'.outcome = "returned"
        /\ last_call'.ret = FALSE) => stored_reviews' = stored_reviews]_vars

\* a call has returned False for a batch whose first record was new and
\* could be inserted and whose second record has a date that does not bind
C29_Witness ==
    /\ last_call.op = "save_reviews"
    /\ last_call.outcome = "returned"
    /\ last_call.ret = FALSE
    /\ Len(last_call.args.reviews) = 2
    /\ last_call.args.reviews[1].date = <<W("May")>>
    /\ last_call.args.reviews[2].date = Timestamp(5)
    /\ select_review(stored_reviews, last_call.args.hotel_id,
                     last_call.args.reviews[1]) = {}
    /\ Len(stored_reviews) < MaxRows

(***************************************************************************)
(* Properties of the search history (checked under SpecHistory).           *)
(***************************************************************************)
\* C22: the search history is append-only: a call of save_search_history
\* that succeeds adds one entry at the end, and no call of the Database
\* removes or changes an entry that is there, so the number of entries never
\* goes down
C22_AsStated ==
    [][LET before == history_rows(search_history)
           after == history_rows(search_history')
       IN  /\ Len(after) >= Len(before)
           /\ SubSeq(after, 1, Len(before)) = before
           /\ (/\ last_call'.op = "save_search_history"
               /\ last_call'.outcome = "returned"
               /\ last_call'.ret) =>
                 after = Append(before,
                                [id |-> after[Len(after)].id,
                                 deleted |-> FALSE] @@ last_call'.args)]_vars

(***************************************************************************)
(* Properties of the region task (checked under SpecRegion).               *)
(***************************************************************************)
\* C28: a pass whose scrape gave the degraded result (no hotel info) stores
\* nothing for its URL: no hotel row is inserted or updated and no review
\* is inserted
C28_AsStated ==
    [][(/\ Len(task_log') = Len(task_log) + 1
        /\ DOMAIN task_log'[Len(task_log')].hotel_info = {})
          => (hotels' = hotels /\ stored_reviews' = stored_reviews)]_vars

(***************************************************************************)
(* Properties of the session (checked under SpecSession).                  *)
(***************************************************************************)
\* the tasks that have not ended
Running == {t \in DOMAIN tasks : tasks[t].pc # "ended"}

\* C21: at most one scrape task of the session runs at any time: a click
\* while a task runs gives no second task running beside it
C21_AsStated == Cardinality(Running) <= 1

\* C30: the scraper a task has created is closed on every path on which the
\* task ends: the normal end, the return of the region task that found no
\* hotel, and the except clause
C30_AsStated ==
    \A t \in DOMAIN tasks : tasks[t].pc = "ended" => tasks[t].scraper # "open"

====
